---- MODULE Spec2Model ----
(***************************************************************************)
(* A model of the CNN-from-scratch training engine: the im2col/col2im      *)
(* transforms (src/core/utils.py), the layer primitives (src/layers), the  *)
(* Sequential container (src/models/sequential.py), the optimizers         *)
(* (src/core/optim.py), the training loop (src/train/loop.py) and the      *)
(* DermaScan predictor (dermascan/inference/predictor.py).                 *)
(*                                                                         *)
(* Tensors are functions from index tuples (0-based, as in the source) to  *)
(* integers.  Each subsystem has its own specification; the variables of   *)
(* the other subsystems stay at their idle value.                          *)
(***************************************************************************)
EXTENDS Integers, Sequences, FiniteSets, TLC

VARIABLES col, heap, lay, model, opt, trn, ret, ghost

\* ------------------------------------------------------------------------
\* Bounds
\* ------------------------------------------------------------------------
MaxN == 2
MaxC == 2
MaxH == 3
MaxK == 3
MaxStride == 2
MaxPad == 1
MaxSeed == 1
MaxCalls == 4
MaxSeqCalls == 3
MaxPredicts == 3
MaxSteps == 3
MaxLr == 2
MaxEpochs == 2
MaxTrain == 2
MaxBatchSize == 2
MaxVal == 1
MaxPatience == 1
MaxNormValue == 3

\* ------------------------------------------------------------------------
\* Helpers
\* ------------------------------------------------------------------------
RECURSIVE SumF(_, _)
SumF(f, S) ==
  IF S = {} THEN 0
  ELSE LET e == CHOOSE e \in S : TRUE IN f[e] + SumF(f, S \ {e})

\* f[lo] + ... + f[hi], by halving
RECURSIVE SumTo(_, _, _)
SumTo(f, lo, hi) ==
  IF lo > hi THEN 0
  ELSE IF lo = hi THEN f[lo]
  ELSE LET mid == (lo + hi) \div 2 IN SumTo(f, lo, mid) + SumTo(f, mid + 1, hi)

\* A bounded family of input tensors: the element at flat position k.
GenVal(seed, k) == (((seed + 1) * (k + 1) + k * k * seed + (k \div 3)) % 5) - 2

\* ------------------------------------------------------------------------
\* Tensors, arrays and the heap
\* ------------------------------------------------------------------------
\* A tensor is its shape and one representative element: the arithmetic of
\* the layers is followed on that element, the shapes are followed in full.
\* An absent value (Python's None) is the tensor with the empty shape.
T(shape, v) == [shape |-> shape, v |-> v]

NoneT == T(<<>>, 0)

IsNone(t) == t.shape = <<>>

RECURSIVE Prod(_)
Prod(sq) == IF sq = <<>> THEN 1 ELSE Head(sq) * Prod(Tail(sq))

\* The heap holds the numpy arrays owned by layers and mappings: an array
\* is referred to by its index, so that two holders of the same index hold
\* the same array object.  Index 0 is None.
Alloc(h, arr) == Append(h, arr)

NewId(h) == Len(h) + 1

\* the value of the variables a specification does not use
Idle == [pc |-> "idle"]

\* no call has returned yet
NoRet == [op |-> "none", err |-> "", out |-> NoneT]

\* ------------------------------------------------------------------------
\* src/core/utils.py : im2col / col2im
\* ------------------------------------------------------------------------
\* out_h = (H + 2 * pad - KH) // stride + 1
OutDim(H, K, stride, pad) == (H + 2 * pad - K) \div stride + 1

\* np.pad(x, ((0,0),(0,0),(pad,pad),(pad,pad)), mode="constant")
PadX(x, N, C, H, W, pad) ==
  [n \in 0..(N - 1), c \in 0..(C - 1), h \in 0..(H + 2 * pad - 1), w \in 0..(W + 2 * pad - 1) |->
     IF h >= pad /\ h < H + pad /\ w >= pad /\ w < W + pad
     THEN x[n, c, h - pad, w - pad] ELSE 0]

\* the indices selected by the slice  i : i_max : stride  of an axis of length dim
SliceIdx(i, imax, stride, dim) ==
  {k \in 0..(dim - 1) : k >= i /\ k < imax /\ (k - i) % stride = 0}

\* every strided slice taken by the two loops has out_h x out_w elements
\* (otherwise the numpy assignment raises)
SlicesFit(H, W, KH, KW, stride, pad) ==
  LET oh == OutDim(H, KH, stride, pad)
      ow == OutDim(W, KW, stride, pad)
  IN \A i \in 0..(KH - 1), j \in 0..(KW - 1) :
        /\ Cardinality(SliceIdx(i, i + stride * oh, stride, H + 2 * pad)) = oh
        /\ Cardinality(SliceIdx(j, j + stride * ow, stride, W + 2 * pad)) = ow

\* cols[:, :, i, j, :, :] = x_padded[:, :, i:i_max:stride, j:j_max:stride]
\* then transpose(0, 4, 5, 1, 2, 3).reshape(N * out_h * out_w, -1)
im2col(x, N, C, H, W, KH, KW, stride, pad) ==
  LET oh == OutDim(H, KH, stride, pad)
      ow == OutDim(W, KW, stride, pad)
      xp == PadX(x, N, C, H, W, pad)
  IN [r \in 0..(N * oh * ow - 1), q \in 0..(C * KH * KW - 1) |->
        LET n  == r \div (oh * ow)
            a  == (r % (oh * ow)) \div ow
            b  == r % ow
            c  == q \div (KH * KW)
            i  == (q % (KH * KW)) \div KW
            j  == q % KW
        IN xp[n, c, i + stride * a, j + stride * b]]

\* col2im with "=" in place of "+=" in the accumulation loop: of the windows
\* that cover a pixel, the last one written (largest i, then largest j) wins
col2imOverwrite(cols, N, C, H, W, KH, KW, stride, pad) ==
  LET oh == OutDim(H, KH, stride, pad)
      ow == OutDim(W, KW, stride, pad)
      xPadded == [n \in 0..(N - 1), c \in 0..(C - 1),
                  hp \in 0..(H + 2 * pad - 1), wp \in 0..(W + 2 * pad - 1) |->
                    LET hits == {t \in (0..(KH - 1)) \X (0..(KW - 1)) \X (0..(oh - 1)) \X (0..(ow - 1)) :
                                   t[1] + stride * t[3] = hp /\ t[2] + stride * t[4] = wp}
                    IN IF hits = {} THEN 0
                       ELSE LET t == CHOOSE u \in hits : \A w \in hits :
                                        w[1] < u[1] \/ (w[1] = u[1] /\ w[2] <= u[2])
                            IN cols[(n * oh + t[3]) * ow + t[4], (c * KH + t[1]) * KW + t[2]]]
  IN [n \in 0..(N - 1), c \in 0..(C - 1), h \in 0..(H - 1), w \in 0..(W - 1) |->
        xPadded[n, c, h + pad, w + pad]]

\* cols.reshape(N, out_h, out_w, C, KH, KW).transpose(0, 3, 4, 5, 1, 2),
\* x_padded[:, :, i:i_max:stride, j:j_max:stride] += cols_reshaped[:, :, i, j, :, :]
\* and the final crop x_padded[:, :, pad:-pad, pad:-pad]
col2im(cols, N, C, H, W, KH, KW, stride, pad) ==
  LET oh == OutDim(H, KH, stride, pad)
      ow == OutDim(W, KW, stride, pad)
      colsReshaped == [n \in 0..(N - 1), c \in 0..(C - 1), i \in 0..(KH - 1),
                       j \in 0..(KW - 1), a \in 0..(oh - 1), b \in 0..(ow - 1) |->
                         cols[(n * oh + a) * ow + b, (c * KH + i) * KW + j]]
      xPadded == [n \in 0..(N - 1), c \in 0..(C - 1),
                  hp \in 0..(H + 2 * pad - 1), wp \in 0..(W + 2 * pad - 1) |->
                    LET hits == {t \in (0..(KH - 1)) \X (0..(KW - 1)) \X (0..(oh - 1)) \X (0..(ow - 1)) :
                                   t[1] + stride * t[3] = hp /\ t[2] + stride * t[4] = wp}
                        contrib == [t \in hits |-> colsReshaped[n, c, t[1], t[2], t[3], t[4]]]
                    IN SumF(contrib, hits)]
  IN [n \in 0..(N - 1), c \in 0..(C - 1), h \in 0..(H - 1), w \in 0..(W - 1) |->
        xPadded[n, c, h + pad, w + pad]]

\* the input tensor x of shape (N, C, H, W) drawn from the bounded family
GenX(seed, N, C, H, W) ==
  [n \in 0..(N - 1), c \in 0..(C - 1), h \in 0..(H - 1), w \in 0..(W - 1) |->
     GenVal(seed, ((n * C + c) * H + h) * W + w)]

\* the column tensor c of shape (R, Q) drawn from the bounded family
GenCols(seed, R, Q) ==
  [r \in 0..(R - 1), q \in 0..(Q - 1) |-> GenVal(seed + 2, r * Q + q)]

ColShapes ==
  {s \in [N : 1..MaxN, C : 1..MaxC, H : 1..MaxH, W : 1..MaxH, KH : 1..MaxK, KW : 1..MaxK,
          stride : 1..MaxStride, pad : 0..MaxPad] :
     /\ OutDim(s.H, s.KH, s.stride, s.pad) > 0
     /\ OutDim(s.W, s.KW, s.stride, s.pad) > 0}

ColRows(s) == s.N * OutDim(s.H, s.KH, s.stride, s.pad) * OutDim(s.W, s.KW, s.stride, s.pad)

ColWidth(s) == s.C * s.KH * s.KW

ColOthers == <<heap, lay, model, opt, trn, ret, ghost>>

ColInit ==
  \E s \in ColShapes, sx \in 0..MaxSeed, sc \in 0..MaxSeed :
     /\ heap = <<>> /\ lay = Idle /\ model = Idle /\ opt = Idle /\ trn = Idle
     /\ ret = NoRet /\ ghost = Idle
     /\ col = [pc |-> "input", shape |-> s,
            x |-> GenX(sx, s.N, s.C, s.H, s.W),
            c |-> GenCols(sc, ColRows(s), ColWidth(s)),
            cols |-> <<>>, xr |-> <<>>, didIm2col |-> FALSE, didCol2im |-> FALSE,
            back |-> <<>>, didBack |-> FALSE, raised |-> FALSE]

\* cols = im2col(x, (KH, KW), stride, pad)
ApplyIm2col ==
  /\ col.pc = "input"
  /\ ~col.didIm2col
  /\ LET s == col.shape IN
       IF SlicesFit(s.H, s.W, s.KH, s.KW, s.stride, s.pad)
       THEN col' = [col EXCEPT !.didIm2col = TRUE,
                      !.cols = im2col(col.x, s.N, s.C, s.H, s.W, s.KH, s.KW, s.stride, s.pad)]
       ELSE col' = [col EXCEPT !.pc = "raised", !.raised = TRUE]
  /\ UNCHANGED ColOthers

\* xr = col2im(c, x.shape, (KH, KW), stride, pad)
ApplyCol2im ==
  /\ col.pc = "input"
  /\ ~col.didCol2im
  /\ LET s == col.shape IN
       IF SlicesFit(s.H, s.W, s.KH, s.KW, s.stride, s.pad)
       THEN col' = [col EXCEPT !.didCol2im = TRUE,
                      !.xr = col2im(col.c, s.N, s.C, s.H, s.W, s.KH, s.KW, s.stride, s.pad)]
       ELSE col' = [col EXCEPT !.pc = "raised", !.raised = TRUE]
  /\ UNCHANGED ColOthers

\* back = col2im(cols, x.shape, (KH, KW), stride, pad) with cols = im2col(x, ...)
ApplyCol2imOfIm2col ==
  /\ col.pc = "input"
  /\ col.didIm2col /\ ~col.didBack
  /\ LET s == col.shape IN
       col' = [col EXCEPT !.didBack = TRUE,
                 !.back = col2im(col.cols, s.N, s.C, s.H, s.W, s.KH, s.KW, s.stride, s.pad)]
  /\ UNCHANGED ColOthers


\* ------------------------------------------------------------------------
\* src/layers : the layer primitives
\* ------------------------------------------------------------------------
LayerKinds ==
  {"Dense", "Conv2D", "MaxPool2D", "AvgPool2D", "BatchNorm2D", "Dropout",
   "ReLU", "LeakyReLU", "Tanh", "Softmax"}

\* Layer.__init__ : training = True; every other field is set by the subclass
BlankLayer(kind) ==
  [kind |-> kind, training |-> TRUE,
   in_f |-> 0, out_f |-> 0, kernel_size |-> <<0, 0>>, stride |-> 1, padding |-> 0,
   use_bias |-> FALSE, p |-> 0, momentum |-> 0, rng |-> 0,
   W |-> 0, b |-> 0, dW |-> 0, db |-> 0,
   gamma |-> 0, beta |-> 0, dgamma |-> 0, dbeta |-> 0,
   running_mean |-> 0, running_var |-> 0,
   x_2d |-> NoneT, x_shape |-> <<>>, x_cols |-> NoneT, out_hw |-> <<>>,
   mask |-> NoneT, x |-> NoneT, y |-> NoneT, out |-> NoneT,
   x_centered |-> NoneT, inv_std |-> NoneT, x_hat |-> NoneT]

\* the value the weight initializers draw for the representative element
InitW == 2

\* Dense.__init__ : W (out, in), b zeros (out,), grad buffers zeros_like
NewDense(h, in_features, out_features, bias) ==
  LET wId == NewId(h)
      h1 == Alloc(h, T(<<out_features, in_features>>, InitW))
      bId == IF bias THEN NewId(h1) ELSE 0
      h2 == IF bias THEN Alloc(h1, T(<<out_features>>, 0)) ELSE h1
      dwId == NewId(h2)
      h3 == Alloc(h2, T(<<out_features, in_features>>, 0))
      dbId == IF bias THEN NewId(h3) ELSE 0
      h4 == IF bias THEN Alloc(h3, T(<<out_features>>, 0)) ELSE h3
  IN [h |-> h4,
      l |-> [BlankLayer("Dense") EXCEPT !.in_f = in_features, !.out_f = out_features,
               !.use_bias = bias, !.W = wId, !.b = bId, !.dW = dwId, !.db = dbId]]

\* Conv2D.__init__ : W (C_out, C_in, KH, KW), b zeros (C_out,), grad buffers
NewConv2D(h, in_channels, out_channels, k, stride, padding, bias) ==
  LET wId == NewId(h)
      h1 == Alloc(h, T(<<out_channels, in_channels, k, k>>, InitW))
      bId == IF bias THEN NewId(h1) ELSE 0
      h2 == IF bias THEN Alloc(h1, T(<<out_channels>>, 0)) ELSE h1
      dwId == NewId(h2)
      h3 == Alloc(h2, T(<<out_channels, in_channels, k, k>>, 0))
      dbId == IF bias THEN NewId(h3) ELSE 0
      h4 == IF bias THEN Alloc(h3, T(<<out_channels>>, 0)) ELSE h3
  IN [h |-> h4,
      l |-> [BlankLayer("Conv2D") EXCEPT !.in_f = in_channels, !.out_f = out_channels,
               !.kernel_size = <<k, k>>, !.stride = stride, !.padding = padding,
               !.use_bias = bias, !.W = wId, !.b = bId, !.dW = dwId, !.db = dbId]]

\* the fixed-point unit of the running statistics (values are stored times FP)
FP == 10 * 10

\* BatchNorm2D.__init__ : momentum in tenths (9 is 0.9); gamma ones, beta zeros, running_mean zeros,
\* running_var ones, grad buffers zeros_like
NewBatchNorm2D(h, num_features, momentum) ==
  LET gId == NewId(h)
      h1 == Alloc(h, T(<<num_features>>, 1))
      bId == NewId(h1)
      h2 == Alloc(h1, T(<<num_features>>, 0))
      dgId == NewId(h2)
      h3 == Alloc(h2, T(<<num_features>>, 0))
      dbId == NewId(h3)
      h4 == Alloc(h3, T(<<num_features>>, 0))
  IN [h |-> h4,
      l |-> [BlankLayer("BatchNorm2D") EXCEPT !.in_f = num_features, !.momentum = momentum,
               !.gamma = gId, !.beta = bId, !.dgamma = dgId, !.dbeta = dbId,
               !.running_mean = 0, !.running_var = FP]]

\* MaxPool2D.__init__ / AvgPool2D.__init__ : stride defaults to kernel_size[0]
NewPool(h, kind, k, stride) ==
  [h |-> h, l |-> [BlankLayer(kind) EXCEPT !.kernel_size = <<k, k>>, !.stride = stride]]

\* Dropout.__init__ : p in percent (50 is p = 0.5); _mask = None; rng is the
\* number of draws taken from the generator the layer holds
NewDropout(h, p) == [h |-> h, l |-> [BlankLayer("Dropout") EXCEPT !.p = p]]

\* ReLU / LeakyReLU / Tanh / Softmax .__init__ : the cache is None
NewActivation(h, kind) == [h |-> h, l |-> BlankLayer(kind)]

\* The result of a call: the layer and the heap after it, the returned
\* tensor, and the exception raised ("" when the call returned).
Res(l, h, out, err) == [l |-> l, h |-> h, out |-> out, err |-> err]

\* "if training is not None: self.training = training"; arg is "None",
\* "True" or "False"
SetTraining(l, arg) ==
  IF arg = "None" THEN l ELSE [l EXCEPT !.training = (arg = "True")]

\* x.reshape(N, -1).shape for ndim > 2, x.shape otherwise
Flat2dShape(shape) ==
  IF Len(shape) > 2 THEN <<shape[1], Prod(Tail(shape))>> ELSE shape

\* Dense.forward
DenseForward(l, h, x, arg) ==
  LET l1 == SetTraining(l, arg)
      x2 == T(Flat2dShape(x.shape), x.v)
      l2 == [l1 EXCEPT !.x_shape = x.shape, !.x_2d = x2]
      bv == IF l.use_bias /\ l.b # 0 THEN h[l.b].v ELSE 0
  IN IF x2.shape[Len(x2.shape)] # h[l.W].shape[2]
     THEN Res(l2, h, NoneT, "ValueError")
     ELSE Res(l2, h, T(SubSeq(x2.shape, 1, Len(x2.shape) - 1) \o <<h[l.W].shape[1]>>,
                       x2.v * h[l.W].v + bv), "")

\* a Dense.backward that returns grad_out @ W without the reshape
DenseBackwardFlat(l, h, g) ==
  IF IsNone(l.x_2d) \/ l.x_shape = <<>>
  THEN Res(l, h, NoneT, "RuntimeError")
  ELSE IF Len(g.shape) # 2 \/ g.shape[1] # l.x_2d.shape[1] \/ g.shape[2] # h[l.W].shape[1]
  THEN Res(l, h, NoneT, "ValueError")
  ELSE Res([l EXCEPT !.dW = NewId(h)],
           Alloc(h, T(<<g.shape[2], l.x_2d.shape[2]>>, g.v * l.x_2d.v)),
           T(<<g.shape[1], h[l.W].shape[2]>>, g.v * h[l.W].v), "")

\* a Dense.backward that adds to the buffers: self.dW += ..., self.db += ...
DenseBackwardAccumulate(l, h, g) ==
  IF IsNone(l.x_2d) \/ l.x_shape = <<>>
  THEN Res(l, h, NoneT, "RuntimeError")
  ELSE IF Len(g.shape) # 2 \/ g.shape[1] # l.x_2d.shape[1]
  THEN Res(l, h, NoneT, "ValueError")
  ELSE
    LET hasB == l.use_bias /\ l.db # 0
        h1 == [h EXCEPT ![l.dW] = T(@.shape, @.v + g.v * l.x_2d.v)]
        h2 == IF hasB THEN [h1 EXCEPT ![l.db] = T(@.shape, @.v + g.v)] ELSE h1
    IN IF g.shape[2] # h[l.W].shape[1]
       THEN Res(l, h2, NoneT, "ValueError")
       ELSE IF Len(l.x_shape) > 2 /\ Prod(l.x_shape) # g.shape[1] * h[l.W].shape[2]
       THEN Res(l, h2, NoneT, "ValueError")
       ELSE Res(l, h2, T(l.x_shape, g.v * h[l.W].v), "")

\* Dense.backward : the buffers are assigned before grad_out @ W and the
\* reshape to the cached input shape can raise
DenseBackward(l, h, g) ==
  IF IsNone(l.x_2d) \/ l.x_shape = <<>>
  THEN Res(l, h, NoneT, "RuntimeError")
  ELSE IF Len(g.shape) # 2 \/ g.shape[1] # l.x_2d.shape[1]
  THEN Res(l, h, NoneT, "ValueError")
  ELSE
    LET dwId == NewId(h)
        h1 == Alloc(h, T(<<g.shape[2], l.x_2d.shape[2]>>, g.v * l.x_2d.v))
        hasB == l.use_bias /\ l.db # 0
        dbId == IF hasB THEN NewId(h1) ELSE l.db
        h2 == IF hasB THEN Alloc(h1, T(<<g.shape[2]>>, g.v)) ELSE h1
        l1 == [l EXCEPT !.dW = dwId, !.db = dbId]
    IN IF g.shape[2] # h[l.W].shape[1]
       THEN Res(l1, h2, NoneT, "ValueError")
       ELSE IF Len(l.x_shape) > 2 /\ Prod(l.x_shape) # g.shape[1] * h[l.W].shape[2]
       THEN Res(l1, h2, NoneT, "ValueError")
       ELSE Res(l1, h2, T(l.x_shape, g.v * h[l.W].v), "")

\* Conv2D._calc_out_hw
CalcOutHW(l, H, W) ==
  <<OutDim(H, l.kernel_size[1], l.stride, l.padding),
    OutDim(W, l.kernel_size[2], l.stride, l.padding)>>

\* a Conv2D.forward that records the input shape before it checks the
\* output size
Conv2DForwardCachesFirst(l, h, x, arg) ==
  LET l1 == SetTraining(l, arg) IN
  IF Len(x.shape) # 4 THEN Res(l1, h, NoneT, "ValueError")
  ELSE IF x.shape[2] # l.in_f THEN Res(l1, h, NoneT, "ValueError")
  ELSE
    LET hw == CalcOutHW(l, x.shape[3], x.shape[4])
        l2 == [l1 EXCEPT !.x_shape = x.shape] IN
    IF hw[1] <= 0 \/ hw[2] <= 0 THEN Res(l2, h, NoneT, "ValueError")
    ELSE
      LET bv == IF l.use_bias THEN h[l.b].v ELSE 0
          cols == T(<<x.shape[1] * hw[1] * hw[2],
                      l.in_f * l.kernel_size[1] * l.kernel_size[2]>>, x.v)
      IN Res([l2 EXCEPT !.x_cols = cols, !.out_hw = hw], h,
             T(<<x.shape[1], l.out_f, hw[1], hw[2]>>, x.v * h[l.W].v + bv), "")

\* Conv2D.forward
Conv2DForward(l, h, x, arg) ==
  LET l1 == SetTraining(l, arg) IN
  IF Len(x.shape) # 4 THEN Res(l1, h, NoneT, "ValueError")
  ELSE IF x.shape[2] # l.in_f THEN Res(l1, h, NoneT, "ValueError")
  ELSE
    LET hw == CalcOutHW(l, x.shape[3], x.shape[4]) IN
    IF hw[1] <= 0 \/ hw[2] <= 0 THEN Res(l1, h, NoneT, "ValueError")
    ELSE
      LET bv == IF l.use_bias THEN h[l.b].v ELSE 0
          cols == T(<<x.shape[1] * hw[1] * hw[2],
                      l.in_f * l.kernel_size[1] * l.kernel_size[2]>>, x.v)
          l2 == [l1 EXCEPT !.x_shape = x.shape, !.x_cols = cols, !.out_hw = hw]
      IN Res(l2, h, T(<<x.shape[1], l.out_f, hw[1], hw[2]>>, x.v * h[l.W].v + bv), "")

\* Conv2D.backward
Conv2DBackward(l, h, g) ==
  IF l.x_shape = <<>> \/ IsNone(l.x_cols) \/ l.out_hw = <<>>
  THEN Res(l, h, NoneT, "RuntimeError")
  ELSE IF g.shape # <<l.x_shape[1], l.out_f, l.out_hw[1], l.out_hw[2]>>
  THEN Res(l, h, NoneT, "ValueError")
  ELSE
    LET dwId == NewId(h)
        h1 == Alloc(h, T(<<l.out_f, l.x_shape[2], l.kernel_size[1], l.kernel_size[2]>>,
                         g.v * l.x_cols.v))
        hasB == l.use_bias /\ l.b # 0
        dbId == IF hasB THEN NewId(h1) ELSE l.db
        h2 == IF hasB THEN Alloc(h1, T(<<l.out_f>>, g.v)) ELSE h1
    IN Res([l EXCEPT !.dW = dwId, !.db = dbId], h2, T(l.x_shape, g.v * h[l.W].v), "")

\* H_out = (H - KH) // S + 1 of the pooling layers
PoolOut(H, K, S) == (H - K) \div S + 1

\* MaxPool2D.forward : "N, C, H, W = x.shape" raises on a non-4D input and
\* np.zeros raises on a negative dimension; the cache is written last
MaxPool2DForward(l, h, x, arg) ==
  LET l1 == SetTraining(l, arg) IN
  IF Len(x.shape) # 4 THEN Res(l1, h, NoneT, "ValueError")
  ELSE
    LET ho == PoolOut(x.shape[3], l.kernel_size[1], l.stride)
        wo == PoolOut(x.shape[4], l.kernel_size[2], l.stride)
    IN IF ho < 0 \/ wo < 0 THEN Res(l1, h, NoneT, "ValueError")
       ELSE Res([l1 EXCEPT !.x_shape = x.shape,
                           !.mask = T(x.shape, IF ho > 0 /\ wo > 0 THEN 1 ELSE 0)],
                h, T(<<x.shape[1], x.shape[2], ho, wo>>, x.v), "")

\* MaxPool2D.backward
MaxPool2DBackward(l, h, g) ==
  IF l.x_shape = <<>> \/ IsNone(l.mask)
  THEN Res(l, h, NoneT, "RuntimeError")
  ELSE Res(l, h, T(l.x_shape, g.v * l.mask.v), "")

\* AvgPool2D.forward
AvgPool2DForward(l, h, x, arg) ==
  LET l1 == SetTraining(l, arg) IN
  IF Len(x.shape) # 4 THEN Res(l1, h, NoneT, "ValueError")
  ELSE
    LET ho == PoolOut(x.shape[3], l.kernel_size[1], l.stride)
        wo == PoolOut(x.shape[4], l.kernel_size[2], l.stride)
    IN IF ho < 0 \/ wo < 0 THEN Res(l1, h, NoneT, "ValueError")
       ELSE Res([l1 EXCEPT !.x_shape = x.shape], h,
                T(<<x.shape[1], x.shape[2], ho, wo>>, x.v), "")

\* AvgPool2D.backward : grad_slice = grad_out / (KH * KW)
AvgPool2DBackward(l, h, g) ==
  IF l.x_shape = <<>>
  THEN Res(l, h, NoneT, "RuntimeError")
  ELSE Res(l, h, T(l.x_shape, g.v \div (l.kernel_size[1] * l.kernel_size[2])), "")

\* np.sqrt taken down to a whole number (found by bisection)
RECURSIVE IsqrtIn(_, _, _)
IsqrtIn(n, lo, hi) ==
  IF lo >= hi THEN lo
  ELSE LET mid == (lo + hi + 1) \div 2
       IN IF mid * mid <= n THEN IsqrtIn(n, mid, hi) ELSE IsqrtIn(n, lo, mid - 1)

Isqrt(n) == IF n <= 0 THEN 0 ELSE IsqrtIn(n, 0, IF n < 46340 THEN n ELSE 46340)

\* a BatchNorm2D.forward that moves the running statistics in eval mode too
BatchNorm2DForwardEvalUpdates(l, h, x, arg) ==
  LET l1 == SetTraining(l, arg) IN
  IF Len(x.shape) # 4 \/ x.shape[2] # l.in_f THEN Res(l1, h, NoneT, "ValueError")
  ELSE
    LET l2 == [l1 EXCEPT
                 !.running_mean = (l.momentum * l.running_mean + (10 - l.momentum) * x.v * FP) \div 10,
                 !.running_var = (l.momentum * l.running_var) \div 10]
    IN IF l1.training
       THEN Res([l2 EXCEPT !.x_centered = T(x.shape, 0), !.inv_std = T(<<l.in_f>>, FP),
                           !.x_hat = T(x.shape, 0)],
                h, T(x.shape, h[l.gamma].v * 0 + h[l.beta].v), "")
       ELSE Res(l2, h, T(x.shape, h[l.beta].v), "")

\* BatchNorm2D.forward : in training mode the batch statistics of the
\* representative element are mean = x and var = 0, so x_hat = 0; the
\* running statistics are rebound to momentum * running + (1 - momentum) * stat
BatchNorm2DForward(l, h, x, arg) ==
  LET l1 == SetTraining(l, arg) IN
  IF Len(x.shape) # 4 \/ x.shape[2] # l.in_f THEN Res(l1, h, NoneT, "ValueError")
  ELSE IF l1.training
  THEN
    LET l2 == [l1 EXCEPT
                 !.running_mean = (l.momentum * l.running_mean + (10 - l.momentum) * x.v * FP) \div 10,
                 !.running_var = (l.momentum * l.running_var) \div 10,
                 !.x_centered = T(x.shape, 0),
                 !.inv_std = T(<<l.in_f>>, FP),
                 !.x_hat = T(x.shape, 0)]
    IN Res(l2, h, T(x.shape, h[l.gamma].v * 0 + h[l.beta].v), "")
  ELSE
    LET den == Isqrt(l.running_var * FP)
        xc == x.v * FP - l.running_mean
    IN Res(l1, h, T(x.shape, (h[l.gamma].v * xc) \div (IF den = 0 THEN 1 ELSE den)
                               + h[l.beta].v), "")

\* BatchNorm2D.backward : dgamma = sum(g * x_hat) has the broadcast shape,
\* dbeta = sum(g) the channel count of g
BatchNorm2DBackward(l, h, g) ==
  IF IsNone(l.x_centered) \/ IsNone(l.inv_std) \/ IsNone(l.x_hat)
  THEN Res(l, h, NoneT, "RuntimeError")
  ELSE IF Len(g.shape) # 4 THEN Res(l, h, NoneT, "ValueError")
  ELSE
    LET dgId == NewId(h)
        h1 == Alloc(h, T(<<l.x_hat.shape[2]>>, g.v * l.x_hat.v))
        dbId == NewId(h1)
        h2 == Alloc(h1, T(<<g.shape[2]>>, g.v))
        dx == h[l.gamma].v * l.inv_std.v * (g.v - g.v - l.x_hat.v * (g.v * l.x_hat.v))
    IN Res([l EXCEPT !.dgamma = dgId, !.dbeta = dbId], h2, T(l.x_hat.shape, dx), "")

\* x * _scale with _scale = 1 / (1 - p)
DropScale(v, p) == (v * 100) \div (100 - p)

\* a Dropout.forward that leaves the mask alone when it is the identity
DropoutForwardKeepsMask(l, h, x, arg, keep) ==
  LET l1 == SetTraining(l, arg) IN
  IF ~l1.training \/ l1.p = 0
  THEN Res(l1, h, x, "")
  ELSE Res([l1 EXCEPT !.mask = T(x.shape, keep), !.rng = @ + 1], h,
           T(x.shape, DropScale(x.v * keep, l1.p)), "")

\* Dropout.forward : keep is the Bernoulli draw for the representative
\* element
DropoutForward(l, h, x, arg, keep) ==
  LET l1 == SetTraining(l, arg) IN
  IF ~l1.training \/ l1.p = 0
  THEN Res([l1 EXCEPT !.mask = NoneT], h, x, "")
  ELSE Res([l1 EXCEPT !.mask = T(x.shape, keep), !.rng = @ + 1], h,
           T(x.shape, DropScale(x.v * keep, l1.p)), "")

\* Dropout.backward : a missing mask means identity
DropoutBackward(l, h, g) ==
  IF IsNone(l.mask) THEN Res(l, h, g, "")
  ELSE Res(l, h, T(g.shape, DropScale(g.v * l.mask.v, l.p)), "")

\* ReLU.forward
ReLUForward(l, h, x, arg) ==
  LET m == IF x.v > 0 THEN 1 ELSE 0
  IN Res([SetTraining(l, arg) EXCEPT !.mask = T(x.shape, m)], h, T(x.shape, x.v * m), "")

\* ReLU.backward
ReLUBackward(l, h, g) ==
  IF IsNone(l.mask) THEN Res(l, h, NoneT, "RuntimeError")
  ELSE Res(l, h, T(g.shape, g.v * l.mask.v), "")

\* LeakyReLU.forward : the negative branch is scaled by negative_slope,
\* which rounds to zero on the integers of the model
LeakyReLUForward(l, h, x, arg) ==
  Res([SetTraining(l, arg) EXCEPT !.x = x], h, T(x.shape, IF x.v > 0 THEN x.v ELSE 0), "")

\* LeakyReLU.backward
LeakyReLUBackward(l, h, g) ==
  IF IsNone(l.x) THEN Res(l, h, NoneT, "RuntimeError")
  ELSE Res(l, h, T(g.shape, IF l.x.v < 0 THEN 0 ELSE g.v), "")

\* the sign of x: tanh rounded to the integers of the model
Sign(v) == IF v > 0 THEN 1 ELSE IF v < 0 THEN -1 ELSE 0

\* Tanh.forward
TanhForward(l, h, x, arg) ==
  LET y == T(x.shape, Sign(x.v))
  IN Res([SetTraining(l, arg) EXCEPT !.y = y], h, y, "")

\* Tanh.backward : grad_out * (1 - y * y)
TanhBackward(l, h, g) ==
  IF IsNone(l.y) THEN Res(l, h, NoneT, "RuntimeError")
  ELSE Res(l, h, T(g.shape, g.v * (1 - l.y.v * l.y.v)), "")

\* Softmax.forward : the probability of the representative element against a
\* reference logit of 0, on the integers of the model
SoftmaxForward(l, h, x, arg) ==
  LET out == T(x.shape, IF x.v > 0 THEN 1 ELSE 0)
  IN Res([SetTraining(l, arg) EXCEPT !.out = out], h, out, "")

\* Softmax.backward : y * (grad_out - sum(grad_out * y))
SoftmaxBackward(l, h, g) ==
  IF IsNone(l.out) THEN Res(l, h, NoneT, "RuntimeError")
  ELSE Res(l, h, T(g.shape, l.out.v * (g.v - g.v * l.out.v)), "")

\* layer.forward(x, training) by class
LayerForward(l, h, x, arg, keep) ==
  CASE l.kind = "Dense" -> DenseForward(l, h, x, arg)
    [] l.kind = "Conv2D" -> Conv2DForward(l, h, x, arg)
    [] l.kind = "MaxPool2D" -> MaxPool2DForward(l, h, x, arg)
    [] l.kind = "AvgPool2D" -> AvgPool2DForward(l, h, x, arg)
    [] l.kind = "BatchNorm2D" -> BatchNorm2DForward(l, h, x, arg)
    [] l.kind = "Dropout" -> DropoutForward(l, h, x, arg, keep)
    [] l.kind = "ReLU" -> ReLUForward(l, h, x, arg)
    [] l.kind = "LeakyReLU" -> LeakyReLUForward(l, h, x, arg)
    [] l.kind = "Tanh" -> TanhForward(l, h, x, arg)
    [] l.kind = "Softmax" -> SoftmaxForward(l, h, x, arg)

\* layer.backward(grad_out) by class
LayerBackward(l, h, g) ==
  CASE l.kind = "Dense" -> DenseBackward(l, h, g)
    [] l.kind = "Conv2D" -> Conv2DBackward(l, h, g)
    [] l.kind = "MaxPool2D" -> MaxPool2DBackward(l, h, g)
    [] l.kind = "AvgPool2D" -> AvgPool2DBackward(l, h, g)
    [] l.kind = "BatchNorm2D" -> BatchNorm2DBackward(l, h, g)
    [] l.kind = "Dropout" -> DropoutBackward(l, h, g)
    [] l.kind = "ReLU" -> ReLUBackward(l, h, g)
    [] l.kind = "LeakyReLU" -> LeakyReLUBackward(l, h, g)
    [] l.kind = "Tanh" -> TanhBackward(l, h, g)
    [] l.kind = "Softmax" -> SoftmaxBackward(l, h, g)

\* layer.params() : name -> array index
LayerParams(l) ==
  CASE l.kind \in {"Dense", "Conv2D"} ->
         IF l.use_bias /\ l.b # 0 THEN [k \in {"W", "b"} |-> IF k = "W" THEN l.W ELSE l.b]
         ELSE [k \in {"W"} |-> l.W]
    [] l.kind = "BatchNorm2D" ->
         [k \in {"gamma", "beta"} |-> IF k = "gamma" THEN l.gamma ELSE l.beta]
    [] OTHER -> [k \in {} |-> 0]

\* layer.grads() : name -> array index
LayerGrads(l) ==
  CASE l.kind \in {"Dense", "Conv2D"} ->
         IF l.use_bias /\ l.db # 0 THEN [k \in {"W", "b"} |-> IF k = "W" THEN l.dW ELSE l.db]
         ELSE [k \in {"W"} |-> l.dW]
    [] l.kind = "BatchNorm2D" ->
         [k \in {"gamma", "beta"} |-> IF k = "gamma" THEN l.dgamma ELSE l.dbeta]
    [] OTHER -> [k \in {} |-> 0]

\* ------------------------------------------------------------------------
\* src/models/sequential.py : Sequential
\* ------------------------------------------------------------------------
SeqRes(m, h, out, err) == [m |-> m, h |-> h, out |-> out, err |-> err]

\* Sequential.__init__ : the container starts in training mode
NewSequential(layers) == [training |-> TRUE, layers |-> layers]

\* Sequential.train
SeqTrain(m) ==
  [training |-> TRUE,
   layers |-> [i \in 1..Len(m.layers) |-> [m.layers[i] EXCEPT !.training = TRUE]]]

\* an eval() that clears the container's flag only
SeqEvalContainerOnly(m) == [m EXCEPT !.training = FALSE]

\* Sequential.eval
SeqEval(m) ==
  [training |-> FALSE,
   layers |-> [i \in 1..Len(m.layers) |-> [m.layers[i] EXCEPT !.training = FALSE]]]

\* "for l in self.layers: out = l.forward(out)" from layer i on; an
\* exception leaves the later layers untouched
RECURSIVE ForwardFrom(_, _, _, _, _)
ForwardFrom(m, h, out, i, keep) ==
  IF i > Len(m.layers) THEN SeqRes(m, h, out, "")
  ELSE LET r == LayerForward(m.layers[i], h, out, "None", keep)
           m1 == [m EXCEPT !.layers[i] = r.l]
       IN IF r.err # "" THEN SeqRes(m1, r.h, NoneT, r.err)
          ELSE ForwardFrom(m1, r.h, r.out, i + 1, keep)

\* Sequential.forward
SeqForward(m, h, x, arg, keep) ==
  LET m1 == IF arg = "None" THEN m ELSE IF arg = "True" THEN SeqTrain(m) ELSE SeqEval(m)
  IN ForwardFrom(m1, h, x, 1, keep)

\* "for l in reversed(self.layers): grad = l.backward(grad)" from layer i down
RECURSIVE BackwardFrom(_, _, _, _)
BackwardFrom(m, h, grad, i) ==
  IF i < 1 THEN SeqRes(m, h, grad, "")
  ELSE LET r == LayerBackward(m.layers[i], h, grad)
           m1 == [m EXCEPT !.layers[i] = r.l]
       IN IF r.err # "" THEN SeqRes(m1, r.h, NoneT, r.err)
          ELSE BackwardFrom(m1, r.h, r.out, i - 1)

\* Sequential.backward
SeqBackward(m, h, grad_out) == BackwardFrom(m, h, grad_out, Len(m.layers))

\* a key without the position of the layer
UnindexedKey(i, kind, k) == kind \o "." \o k

\* f"{i}.{l.__class__.__name__}.{k}" with i the 0-based position
QualifiedKey(i, kind, k) == ToString(i) \o "." \o kind \o "." \o k

\* out[key] = v on a dict
DictSet(d, key, v) == [k \in DOMAIN d \cup {key} |-> IF k = key THEN v ELSE d[k]]

\* "for k, v in l.params().items(): out[key] = v" for one layer
RECURSIVE PutAll(_, _, _, _, _)
PutAll(d, i, kind, sub, names) ==
  IF names = {} THEN d
  ELSE LET k == CHOOSE k \in names : TRUE
       IN PutAll(DictSet(d, QualifiedKey(i, kind, k), sub[k]), i, kind, sub, names \ {k})

\* the loop over enumerate(self.layers), from position i (1-based here)
RECURSIVE CollectFrom(_, _, _, _)
CollectFrom(m, d, i, grads) ==
  IF i > Len(m.layers) THEN d
  ELSE LET l == m.layers[i]
           sub == IF grads THEN LayerGrads(l) ELSE LayerParams(l)
       IN CollectFrom(m, PutAll(d, i - 1, l.kind, sub, DOMAIN sub), i + 1, grads)

EmptyDict == [k \in {} |-> 0]

\* the shape of the input each layer is given by Sequential.forward, from
\* layer i on
RECURSIVE InputShapesFrom(_, _, _, _, _)
InputShapesFrom(m, h, x, i, keep) ==
  IF i > Len(m.layers) THEN <<>>
  ELSE LET r == LayerForward(m.layers[i], h, x, "None", keep)
       IN IF r.err # "" THEN <<x.shape>>
          ELSE <<x.shape>> \o InputShapesFrom(m, r.h, r.out, i + 1, keep)

\* the shape of the gradient each layer returns in Sequential.backward,
\* from layer i down, in the order of the layers
RECURSIVE GradShapesFrom(_, _, _, _)
GradShapesFrom(m, h, grad, i) ==
  IF i < 1 THEN <<>>
  ELSE LET r == LayerBackward(m.layers[i], h, grad)
       IN IF r.err # "" THEN <<>>
          ELSE GradShapesFrom(m, r.h, r.out, i - 1) \o <<r.out.shape>>

\* Sequential.params : qualified name -> array index
SeqParams(m) == CollectFrom(m, EmptyDict, 1, FALSE)

\* Sequential.grads : qualified name -> array index
SeqGrads(m) == CollectFrom(m, EmptyDict, 1, TRUE)

\* a stack built from a sequence of constructor calls, each a record
\* [kind, a, b, k, stride, padding, p]
NewLayer(c, h) ==
  CASE c.kind = "Dense" -> NewDense(h, c.a, c.b, TRUE)
    [] c.kind = "Conv2D" -> NewConv2D(h, c.a, c.b, c.k, c.stride, c.padding, TRUE)
    [] c.kind = "BatchNorm2D" -> NewBatchNorm2D(h, c.a, 9)
    [] c.kind \in {"MaxPool2D", "AvgPool2D"} -> NewPool(h, c.kind, c.k, c.stride)
    [] c.kind = "Dropout" -> NewDropout(h, c.p)
    [] OTHER -> NewActivation(h, c.kind)

\* the number of arrays the constructors of specs[1..i-1] have allocated
ArraysBefore(specs, i) ==
  4 * Cardinality({j \in 1..(i - 1) : specs[j].kind \in {"Dense", "Conv2D", "BatchNorm2D"}})

\* the i-th constructor call, run on the heap the calls before it have left
\* (only the length of that heap decides the new array ids)
BuiltLayer(specs, i) == NewLayer(specs[i], [j \in 1..ArraysBefore(specs, i) |-> NoneT])

\* the constructor calls of specs in order: the layers and the heap they leave
BuildLayers(specs) ==
  [h |-> [k \in 1..ArraysBefore(specs, Len(specs) + 1) |->
            LET i == CHOOSE j \in 1..Len(specs) :
                       ArraysBefore(specs, j) < k /\ k <= ArraysBefore(specs, j + 1)
            IN BuiltLayer(specs, i).h[k]],
   layers |-> [i \in 1..Len(specs) |-> BuiltLayer(specs, i).l]]

Conv(a, b, k, stride, padding) ==
  [kind |-> "Conv2D", a |-> a, b |-> b, k |-> k, stride |-> stride, padding |-> padding, p |-> 0]

Fc(a, b) == [kind |-> "Dense", a |-> a, b |-> b, k |-> 0, stride |-> 1, padding |-> 0, p |-> 0]

Bn(a) == [kind |-> "BatchNorm2D", a |-> a, b |-> 0, k |-> 0, stride |-> 1, padding |-> 0, p |-> 0]

MaxPool(k) == [kind |-> "MaxPool2D", a |-> 0, b |-> 0, k |-> k, stride |-> k, padding |-> 0, p |-> 0]

Drop(p) == [kind |-> "Dropout", a |-> 0, b |-> 0, k |-> 0, stride |-> 1, padding |-> 0, p |-> p]

Act(kind) == [kind |-> kind, a |-> 0, b |-> 0, k |-> 0, stride |-> 1, padding |-> 0, p |-> 0]

\* src/models/convnet_small.py : lenet_mnist
LenetMnist(num_classes) ==
  <<Conv(1, 6, 5, 1, 2), Act("ReLU"), MaxPool(2),
    Conv(6, 16, 5, 1, 0), Act("ReLU"), MaxPool(2),
    Fc(16 * 5 * 5, 120), Act("ReLU"), Fc(120, 84), Act("ReLU"), Drop(30),
    Fc(84, num_classes)>>

\* src/models/convnet_small.py : vgg_tiny_cifar10
VggTinyCifar10(num_classes) ==
  <<Conv(3, 32, 3, 1, 1), Bn(32), Act("ReLU"), Conv(32, 32, 3, 1, 1), Bn(32), Act("ReLU"),
    MaxPool(2), Drop(25),
    Conv(32, 64, 3, 1, 1), Bn(64), Act("ReLU"), Conv(64, 64, 3, 1, 1), Bn(64), Act("ReLU"),
    MaxPool(2), Drop(25),
    Fc(64 * 8 * 8, 256), Act("ReLU"), Drop(50), Fc(256, num_classes)>>

\* dermascan/inference/predictor.py : DermaScanPredictor._build_model
DermaScanLayers(num_classes) ==
  <<Conv(3, 32, 3, 1, 1), Bn(32), Act("ReLU"), Conv(32, 32, 3, 1, 1), Bn(32), Act("ReLU"),
    MaxPool(2),
    Conv(32, 64, 3, 1, 1), Bn(64), Act("ReLU"), Conv(64, 64, 3, 1, 1), Bn(64), Act("ReLU"),
    MaxPool(2),
    Conv(64, 128, 3, 1, 1), Bn(128), Act("ReLU"), Conv(128, 128, 3, 1, 1), Bn(128), Act("ReLU"),
    MaxPool(2),
    Conv(128, 256, 3, 1, 1), Bn(256), Act("ReLU"), MaxPool(2),
    Fc(256 * 14 * 14, 512), Act("ReLU"), Drop(50), Fc(512, num_classes), Act("Softmax")>>

vars == <<col, heap, lay, model, opt, trn, ret, ghost>>

ColNext == ApplyIm2col \/ ApplyCol2im \/ ApplyCol2imOfIm2col

SpecCol == ColInit /\ [][ColNext]_vars

\* ------------------------------------------------------------------------
\* One layer primitive driven through its interface
\* ------------------------------------------------------------------------
\* the layers a caller can construct, on the empty heap
LayerChoices ==
  {NewDense(<<>>, 4, 2, bias) : bias \in BOOLEAN}
  \cup {NewConv2D(<<>>, 1, 2, k, 1, pd, bias) : k \in 1..2, pd \in 0..1, bias \in BOOLEAN}
  \cup {NewPool(<<>>, kind, 2, 2) : kind \in {"MaxPool2D", "AvgPool2D"}}
  \cup {NewBatchNorm2D(<<>>, 1, 9)}
  \cup {NewDropout(<<>>, p) : p \in {0, 50}}
  \cup {NewActivation(<<>>, kind) : kind \in {"ReLU", "LeakyReLU", "Tanh", "Softmax"}}

\* the input tensors a caller passes to one layer
\* (a Conv2D is also passed an input smaller than its kernel or with another
\* channel count, a pooling layer an input smaller than its kernel)
LayerInputs ==
  {T(sh, v) : sh \in {<<2, 4>>, <<2, 1, 2, 2>>}, v \in {-1, 2}}
  \cup {T(sh, 2) : sh \in (CASE lay.kind = "Conv2D" -> {<<2, 1, 1, 1>>, <<2, 2, 2, 2>>}
                             [] lay.kind \in {"MaxPool2D", "AvgPool2D"} -> {<<2, 1, 1, 1>>}
                             [] OTHER -> {})}

\* the upstream gradients a caller passes: of the shape of the last output
\* once a forward has returned one
LayerGradients ==
  {T(sh, v) : sh \in (IF ghost.outShape = <<>> THEN {<<2, 2>>, <<2, 2, 2, 2>>}
                      ELSE {ghost.outShape}),
              v \in {1, 3}}

\* the arrays a mapping of names to array indices holds
Arrays(d, h) == [k \in DOMAIN d |-> h[d[k]]]

\* what a layer keeps besides its forward cache: the mode flag, the
\* parameters, the gradient buffers, the running statistics and the state
\* of the generator
PersistentState(l, h) ==
  [training |-> l.training, params |-> Arrays(LayerParams(l), h),
   grads |-> Arrays(LayerGrads(l), h),
   running_mean |-> l.running_mean, running_var |-> l.running_var, rng |-> l.rng]

\* the heap with the gradient buffers of the layer zeroed
ZeroGrads(l, h) ==
  [i \in 1..Len(h) |->
     IF \E k \in DOMAIN LayerGrads(l) : LayerGrads(l)[k] = i THEN T(h[i].shape, 0) ELSE h[i]]

NoCall == [op |-> "none"]

\* the forward cache of a layer
Cache(l) ==
  [x_2d |-> l.x_2d, x_shape |-> l.x_shape, x_cols |-> l.x_cols, out_hw |-> l.out_hw,
   mask |-> l.mask, x |-> l.x, y |-> l.y, out |-> l.out,
   x_centered |-> l.x_centered, inv_std |-> l.inv_std, x_hat |-> l.x_hat]

LayOthers == <<col, model, opt, trn>>

LayInit ==
  /\ \E c \in LayerChoices : heap = c.h /\ lay = c.l
  /\ ret = NoRet
  /\ ghost = [forwards |-> 0, calls |-> 0, outShape |-> <<>>,
              lastMode |-> "none", prev |-> NoCall, repeat |-> FALSE,
              before |-> PersistentState(lay, heap),
              done |-> 0, second |-> FALSE, gs |-> <<>>, alone |-> Arrays(LayerGrads(lay), heap),
              cache |-> Cache(lay), last |-> NoCall, g |-> NoneT]
  /\ col = Idle /\ model = Idle /\ opt = Idle /\ trn = Idle

\* y = layer.forward(x, training)
CallForward ==
  /\ ghost.calls < MaxCalls
  /\ \E x \in LayerInputs, arg \in {"None", "True", "False"},
        keep \in (IF lay.kind = "Dropout" THEN 0..1 ELSE {1}) :
       LET r == LayerForward(lay, heap, x, arg, keep) IN
         /\ lay' = r.l
         /\ heap' = r.h
         /\ ret' = [op |-> "forward", err |-> r.err, out |-> r.out]
         /\ ghost' = [ghost EXCEPT !.forwards = 1, !.calls = @ + 1,
                        !.outShape = IF r.err = "" THEN r.out.shape ELSE @,
                        !.lastMode = IF r.err # "" THEN @
                                     ELSE IF r.l.training THEN "train" ELSE "eval",
                        !.prev = [op |-> "forward", x |-> x, arg |-> arg, keep |-> keep,
                                  err |-> r.err],
                        !.repeat = (ghost.prev = [op |-> "forward", x |-> x, arg |-> arg,
                                                  keep |-> keep, err |-> ""]
                                    /\ r.err = ""),
                        !.before = PersistentState(lay, heap),
                        !.done = IF r.err = "" THEN 0 ELSE @, !.second = FALSE,
                        !.cache = Cache(lay), !.g = NoneT,
                        !.last = IF r.err # "" THEN @
                                 ELSE [op |-> "forward", x |-> x, keep |-> keep,
                                       training |-> r.l.training]]
  /\ UNCHANGED LayOthers

\* grad_x = layer.backward(grad_out)
CallBackward ==
  /\ ghost.calls < MaxCalls
  /\ \E g \in LayerGradients :
       LET r == LayerBackward(lay, heap, g) IN
         /\ lay' = r.l
         /\ heap' = r.h
         /\ ret' = [op |-> "backward", err |-> r.err, out |-> r.out]
         /\ ghost' = [ghost EXCEPT !.calls = @ + 1,
                        !.prev = [op |-> "backward"], !.repeat = FALSE,
                        !.before = PersistentState(lay, heap),
                        !.done = IF r.err = "" THEN @ + 1 ELSE @,
                        !.second = (ghost.done >= 1),
                        !.gs = IF r.err = "" THEN Append(@, g.v) ELSE @,
                        !.alone = LET r0 == LayerBackward(lay, ZeroGrads(lay, heap), g)
                                  IN Arrays(LayerGrads(r0.l), r0.h),
                        !.cache = Cache(lay), !.g = g]
  /\ UNCHANGED LayOthers

\* Layer.train
CallTrain ==
  /\ ~lay.training
  /\ lay' = [lay EXCEPT !.training = TRUE]
  /\ ret' = [op |-> "train", err |-> "", out |-> NoneT]
  /\ ghost' = [ghost EXCEPT !.prev = NoCall, !.repeat = FALSE, !.second = FALSE, !.g = NoneT]
  /\ UNCHANGED heap
  /\ UNCHANGED LayOthers

\* Layer.eval
CallEval ==
  /\ lay.training
  /\ lay' = [lay EXCEPT !.training = FALSE]
  /\ ret' = [op |-> "eval", err |-> "", out |-> NoneT]
  /\ ghost' = [ghost EXCEPT !.prev = NoCall, !.repeat = FALSE, !.second = FALSE, !.g = NoneT]
  /\ UNCHANGED heap
  /\ UNCHANGED LayOthers

LayNext == CallForward \/ CallBackward \/ CallTrain \/ CallEval

SpecLayer == LayInit /\ [][LayNext]_vars

\* ------------------------------------------------------------------------
\* C2
\* ------------------------------------------------------------------------
\* C2: for every layer primitive, a backward call on an instance whose
\* forward has never been called raises the state error (RuntimeError) and
\* returns no gradient.
C2_BackwardBeforeForwardRaises ==
  (ret.op = "backward" /\ ghost.forwards = 0) =>
     (ret.err = "RuntimeError" /\ IsNone(ret.out))


\* ------------------------------------------------------------------------
\* C16
\* ------------------------------------------------------------------------
\* C16: a BatchNorm2D.backward whose most recent forward ran in eval mode
\* raises the state error and returns no gradient, also when an earlier
\* forward ran in training mode.
C16_BackwardAfterEvalForwardRaises ==
  (lay.kind = "BatchNorm2D" /\ ret.op = "backward" /\ ghost.lastMode = "eval") =>
     (ret.err = "RuntimeError" /\ IsNone(ret.out))

\* ------------------------------------------------------------------------
\* C17
\* ------------------------------------------------------------------------
\* C17 as stated: a forward that repeats the forward before it (same input,
\* same mode) leaves the mode flag, the parameters, the gradient buffers,
\* the running statistics and every other persistent field as the first
\* forward left them.
C17_ForwardIdempotent ==
  ghost.repeat => PersistentState(lay, heap) = ghost.before

\* C17: a forward that repeats the forward before it leaves the mode flag,
\* the parameters and the gradient buffers as the first forward left them;
\* so it leaves the running statistics, except for BatchNorm2D in training
\* mode, where each forward moves them once more by
\* running = m * running + (1 - m) * batch_stat; and so it leaves the
\* generator, except for Dropout in training mode with p > 0, where each
\* forward draws a mask.
C17_ForwardIdempotentButRunningStats ==
  ghost.repeat =>
     /\ lay.training = ghost.before.training
     /\ Arrays(LayerParams(lay), heap) = ghost.before.params
     /\ Arrays(LayerGrads(lay), heap) = ghost.before.grads
     /\ IF lay.kind = "BatchNorm2D" /\ lay.training
        THEN /\ lay.running_mean = (lay.momentum * ghost.before.running_mean
                                       + (10 - lay.momentum) * ghost.prev.x.v * FP) \div 10
             /\ lay.running_var = (lay.momentum * ghost.before.running_var) \div 10
        ELSE /\ lay.running_mean = ghost.before.running_mean
             /\ lay.running_var = ghost.before.running_var
     /\ IF lay.kind = "Dropout" /\ lay.training /\ lay.p > 0
        THEN lay.rng = ghost.before.rng + 1
        ELSE lay.rng = ghost.before.rng

\* BatchNorm2D in eval mode: two forwards of the same input after one
\* training forward leave the running statistics as they were
C17_Witness ==
  /\ ghost.repeat /\ lay.kind = "BatchNorm2D" /\ ~lay.training
  /\ ghost.prev.x.v = 2 /\ ghost.calls = 3
  /\ lay.running_mean = 20 /\ lay.running_var = 90
  /\ ghost.before.running_mean = 20 /\ ghost.before.running_var = 90

\* ------------------------------------------------------------------------
\* C18
\* ------------------------------------------------------------------------
\* C18: for every caching layer, a backward call that follows a backward
\* which has run, with no forward in between, is rejected like a backward
\* before forward: it raises the state error and returns no gradient.
C18_CacheConsumedOnce ==
  (ret.op = "backward" /\ ghost.second) => (ret.err = "RuntimeError" /\ IsNone(ret.out))

\* ------------------------------------------------------------------------
\* C19
\* ------------------------------------------------------------------------
\* C19: for Dense, Conv2D and BatchNorm2D, after a backward that follows
\* another backward, grads() holds exactly what this backward alone
\* produces from the current cache (what it leaves in zeroed buffers), under
\* the keys of params() and with the shapes of the parameters.
C19_GradsOverwritten ==
  (ret.op = "backward" /\ ret.err = "" /\ Len(ghost.gs) >= 2
     /\ lay.kind \in {"Dense", "Conv2D", "BatchNorm2D"}) =>
     /\ Arrays(LayerGrads(lay), heap) = ghost.alone
     /\ DOMAIN LayerGrads(lay) = DOMAIN LayerParams(lay)
     /\ \A k \in DOMAIN LayerGrads(lay) :
          heap[LayerGrads(lay)[k]].shape = heap[LayerParams(lay)[k]].shape

\* Dense with bias: backward of gradient 1, then backward of gradient 3 on
\* the cache of the input 2 leaves dW = 3 * 2 and db = 3
C19_Witness ==
  /\ ret.op = "backward" /\ ret.err = "" /\ ghost.gs = <<1, 3>>
  /\ lay.kind = "Dense" /\ lay.use_bias /\ lay.x_2d.v = 2
  /\ heap[lay.dW].v = 6 /\ heap[lay.db].v = 3

\* ------------------------------------------------------------------------
\* C21
\* ------------------------------------------------------------------------
\* the input of a Conv2D.forward is invalid: not 4D, another channel count
\* than in_channels, or an output height or width <= 0
InvalidConvInput(l, x) ==
  \/ Len(x.shape) # 4
  \/ x.shape[2] # l.in_f
  \/ CalcOutHW(l, x.shape[3], x.shape[4])[1] <= 0
  \/ CalcOutHW(l, x.shape[3], x.shape[4])[2] <= 0

\* C21: a Conv2D.forward on an invalid input raises ValueError, returns
\* nothing, and leaves the forward cache, the parameters and the gradient
\* buffers exactly as they were.
C21_ConvRejectsBeforeComputing ==
  (lay.kind = "Conv2D" /\ ret.op = "forward" /\ InvalidConvInput(lay, ghost.prev.x)) =>
     /\ ret.err = "ValueError" /\ IsNone(ret.out)
     /\ Cache(lay) = ghost.cache
     /\ Arrays(LayerParams(lay), heap) = ghost.before.params
     /\ Arrays(LayerGrads(lay), heap) = ghost.before.grads

\* a Conv2D with a 2x2 kernel and no padding that holds the cache of a
\* forward on a 2x2 input rejects a 1x1 input (H_out = 0)
C21_Witness ==
  /\ lay.kind = "Conv2D" /\ ret.op = "forward" /\ ret.err = "ValueError"
  /\ lay.kernel_size = <<2, 2>> /\ lay.padding = 0
  /\ ghost.prev.x.shape = <<2, 1, 1, 1>>
  /\ lay.x_shape = <<2, 1, 2, 2>> /\ lay.out_hw = <<1, 1>>

\* ------------------------------------------------------------------------
\* C22
\* ------------------------------------------------------------------------
\* the input of a pooling forward is invalid: not 4D, or an output height
\* or width (H - KH) // stride + 1 <= 0
InvalidPoolInput(l, x) ==
  \/ Len(x.shape) # 4
  \/ PoolOut(x.shape[3], l.kernel_size[1], l.stride) <= 0
  \/ PoolOut(x.shape[4], l.kernel_size[2], l.stride) <= 0

\* C22: a MaxPool2D.forward or AvgPool2D.forward on an invalid input
\* raises, returns no output, and does not overwrite the cache.
C22_PoolRejectsBeforeComputing ==
  (lay.kind \in {"MaxPool2D", "AvgPool2D"} /\ ret.op = "forward"
     /\ InvalidPoolInput(lay, ghost.prev.x)) =>
     /\ ret.err # "" /\ IsNone(ret.out)
     /\ Cache(lay) = ghost.cache

\* ------------------------------------------------------------------------
\* C23
\* ------------------------------------------------------------------------
\* the most recent forward of the layer drew a mask: it ran in training
\* mode with p > 0
Masked == ghost.last.op = "forward" /\ ghost.last.training /\ lay.p > 0

\* C23: a Dropout.forward that draws a mask returns 0 or x / (1 - p), any
\* other returns its input; a Dropout.backward after a forward that drew a
\* mask returns 0 where that forward dropped and grad_out / (1 - p) where
\* it kept; after any other forward, or none, it returns grad_out, with no
\* mask left from an earlier forward.
C23_DropoutBackwardUsesLastMask ==
  lay.kind = "Dropout" =>
     /\ ret.op = "forward" =>
          /\ ret.err = ""
          /\ IF Masked
             THEN /\ ret.out.v = (IF ghost.last.keep = 1 THEN DropScale(ghost.last.x.v, lay.p) ELSE 0)
                  /\ ~IsNone(lay.mask)
             ELSE ret.out = ghost.last.x /\ IsNone(lay.mask)
     /\ ret.op = "backward" =>
          /\ ret.err = ""
          /\ IF Masked
             THEN ret.out = T(ghost.g.shape,
                              IF ghost.last.keep = 1 THEN DropScale(ghost.g.v, lay.p) ELSE 0)
             ELSE ret.out = ghost.g

\* p = 0.5: a training forward that dropped, then an eval forward, then a
\* backward that returns the gradient 3 unchanged
C23_Witness ==
  /\ lay.kind = "Dropout" /\ lay.p = 50 /\ ret.op = "backward" /\ ghost.calls = 3
  /\ ghost.lastMode = "eval" /\ lay.rng = 1 /\ ghost.g.v = 3 /\ ret.out = ghost.g

\* ------------------------------------------------------------------------
\* C1
\* ------------------------------------------------------------------------
\* np.sum(a * b) for two tensors of shape (N, C, H, W)
Dot4(a, b, N, C, H, W) ==
  SumTo([k \in 0..(N * C * H * W - 1) |->
          LET n == k \div (C * H * W)
              c == (k % (C * H * W)) \div (H * W)
              h == (k % (H * W)) \div W
              w == k % W
          IN a[n, c, h, w] * b[n, c, h, w]], 0, N * C * H * W - 1)

\* np.sum(a * b) for two matrices of shape (R, Q)
Dot2(a, b, R, Q) ==
  SumTo([k \in 0..(R * Q - 1) |-> a[k \div Q, k % Q] * b[k \div Q, k % Q]], 0, R * Q - 1)

\* left = np.sum(cols * c)
AdjLeft == Dot2(col.cols, col.c, ColRows(col.shape), ColWidth(col.shape))

\* right = np.sum(x * xr)
AdjRight == Dot4(col.x, col.xr, col.shape.N, col.shape.C, col.shape.H, col.shape.W)

\* C1: for every shape, kernel, stride and pad with positive output size, no
\* slice assignment raises, and once both transforms have run
\* sum(im2col(x) * c) equals sum(x * col2im(c, x.shape)).
C1_Adjoint ==
  /\ ~col.raised
  /\ (col.pc = "input" /\ col.didIm2col /\ col.didCol2im) =>
        AdjLeft = AdjRight

\* both transforms ran on overlapping windows (stride < kernel) with a
\* remainder (H + 2*pad - KH not a multiple of stride) and a nonzero sum
C1_Witness ==
  /\ col.pc = "input" /\ col.didIm2col /\ col.didCol2im
  /\ col.shape.stride < col.shape.KH
  /\ (col.shape.H + 2 * col.shape.pad - col.shape.KH) % col.shape.stride # 0
  /\ col.shape.pad > 0
  /\ AdjLeft # 0


\* ------------------------------------------------------------------------
\* A Sequential model driven through its interface
\* ------------------------------------------------------------------------
\* the preset stacks with the shape (C, H, W) of their input, and a stack
\* of the layer classes the presets do not use
SeqChoices ==
  {[name |-> "lenet_mnist", specs |-> LenetMnist(10), chw |-> <<1, 28, 28>>],
   [name |-> "vgg_tiny_cifar10", specs |-> VggTinyCifar10(10), chw |-> <<3, 32, 32>>],
   [name |-> "other",
    specs |-> <<Conv(1, 2, 3, 1, 1), Act("LeakyReLU"), [MaxPool(2) EXCEPT !.kind = "AvgPool2D"],
                Act("Tanh"), Fc(2 * 2 * 2, 3), Act("Softmax")>>,
    chw |-> <<1, 4, 4>>]}

\* the batches a caller passes to the model
SeqInputs == {T(<<n>> \o ghost.chw, 2) : n \in 1..2}

\* the upstream gradients: of the shape of the last output once a forward
\* has returned one
SeqGradients ==
  {T(sh, 1) : sh \in (IF ghost.outShape = <<>> THEN {<<1, 10>>} ELSE {ghost.outShape})}

SeqOthers == <<col, lay, opt, trn>>

SeqInit ==
  /\ \E c \in SeqChoices :
       LET r == BuildLayers(c.specs) IN
         /\ heap = r.h
         /\ model = NewSequential(r.layers)
         /\ ghost = [calls |-> 0, outShape |-> <<>>, lastMode |-> "None", chw |-> c.chw,
                     name |-> c.name, ins |-> <<>>, gradShapes |-> <<>>]
  /\ ret = [op |-> "none", arg |-> "None", err |-> "", out |-> NoneT]
  /\ col = Idle /\ lay = Idle /\ opt = Idle /\ trn = Idle

\* model.train()
SeqCallTrain ==
  /\ model' = SeqTrain(model)
  /\ ret' = [op |-> "train", arg |-> "None", err |-> "", out |-> NoneT]
  /\ ghost' = [ghost EXCEPT !.lastMode = "True"]
  /\ UNCHANGED heap
  /\ UNCHANGED SeqOthers

\* model.eval()
SeqCallEval ==
  /\ model' = SeqEval(model)
  /\ ret' = [op |-> "eval", arg |-> "None", err |-> "", out |-> NoneT]
  /\ ghost' = [ghost EXCEPT !.lastMode = "False"]
  /\ UNCHANGED heap
  /\ UNCHANGED SeqOthers

\* out = model.forward(x, training)
SeqCallForward ==
  /\ ghost.calls < MaxSeqCalls
  /\ \E x \in SeqInputs, arg \in {"None", "True", "False"}, keep \in 0..1 :
       LET r == SeqForward(model, heap, x, arg, keep) IN
         /\ model' = r.m
         /\ heap' = r.h
         /\ ret' = [op |-> "forward", arg |-> arg, err |-> r.err, out |-> r.out]
         /\ ghost' = [ghost EXCEPT !.calls = @ + 1,
                        !.outShape = IF r.err = "" THEN r.out.shape ELSE @,
                        !.lastMode = IF arg = "None" THEN @ ELSE arg,
                        !.ins = InputShapesFrom(
                                  IF arg = "None" THEN model
                                  ELSE IF arg = "True" THEN SeqTrain(model) ELSE SeqEval(model),
                                  heap, x, 1, keep)]
  /\ UNCHANGED SeqOthers

\* grad = model.backward(grad_out)
SeqCallBackward ==
  /\ ghost.calls < MaxSeqCalls
  /\ \E g \in SeqGradients :
       LET r == SeqBackward(model, heap, g) IN
         /\ model' = r.m
         /\ heap' = r.h
         /\ ret' = [op |-> "backward", arg |-> "None", err |-> r.err, out |-> r.out]
         /\ ghost' = [ghost EXCEPT !.calls = @ + 1,
                        !.gradShapes = GradShapesFrom(model, heap, g, Len(model.layers))]
  /\ UNCHANGED SeqOthers

SeqNext == SeqCallTrain \/ SeqCallEval \/ SeqCallForward \/ SeqCallBackward

SpecSeq == SeqInit /\ [][SeqNext]_vars

\* ------------------------------------------------------------------------
\* C4
\* ------------------------------------------------------------------------
\* the training flags of the container and of every child
ModeFlags(m) == <<m.training, [i \in 1..Len(m.layers) |-> m.layers[i].training]>>

AllFlags(m, b) == m.training = b /\ \A i \in 1..Len(m.layers) : m.layers[i].training = b

\* C4: after any sequence of train(), eval() and forward(x, training=t) calls
\* the flag of the container and of every child equal the mode set by the
\* most recent call that set one, and forward(x) without an override
\* changes no flag.
C4_ModePropagated ==
  /\ [](ghost.lastMode # "None" => AllFlags(model, ghost.lastMode = "True"))
  /\ [][(ret'.op = "forward" /\ ret'.arg = "None") => ModeFlags(model') = ModeFlags(model)]_vars

\* an eval-setting call was followed by a forward without override that
\* returned, and every flag is still False
C4_Witness ==
  /\ ghost.lastMode = "False"
  /\ ret.op = "forward" /\ ret.arg = "None" /\ ret.err = ""
  /\ AllFlags(model, FALSE)

\* ------------------------------------------------------------------------
\* C5
\* ------------------------------------------------------------------------
\* the number of parameters of the children from position i on
RECURSIVE CountParams(_, _)
CountParams(m, i) ==
  IF i > Len(m.layers) THEN 0
  ELSE Cardinality(DOMAIN LayerParams(m.layers[i])) + CountParams(m, i + 1)

\* C5: params() and grads() expose every child parameter and gradient under
\* '<index>.<class>.<name>', no two entries collide on a key, and the keys of
\* grads() are the keys of params() with equal shapes per key.
C5_QualifiedKeys ==
  LET P == SeqParams(model)
      G == SeqGrads(model)
  IN /\ Cardinality(DOMAIN P) = CountParams(model, 1)
     /\ \A i \in 1..Len(model.layers) :
          LET l == model.layers[i] IN
            \A k \in DOMAIN LayerParams(l) :
               LET key == ToString(i - 1) \o "." \o l.kind \o "." \o k IN
                 /\ key \in DOMAIN P /\ P[key] = LayerParams(l)[k]
                 /\ key \in DOMAIN G /\ G[key] = LayerGrads(l)[k]
     /\ DOMAIN G = DOMAIN P
     /\ \A key \in DOMAIN P : heap[G[key]].shape = heap[P[key]].shape

\* a backward pass has refilled the gradient buffers of a stack in which the
\* same layer class occurs several times
C5_Witness ==
  /\ ret.op = "backward" /\ ret.err = ""
  /\ {"6.Dense.W", "8.Dense.W", "11.Dense.W", "11.Dense.b"} \subseteq DOMAIN SeqGrads(model)
  /\ heap[SeqGrads(model)["11.Dense.W"]].shape = <<10, 84>>
  /\ SeqGrads(model)["11.Dense.W"] # SeqParams(model)["11.Dense.W"]


\* ------------------------------------------------------------------------
\* dermascan/inference/predictor.py : DermaScanPredictor
\* ------------------------------------------------------------------------
\* len(DEFAULT_CLASSES)
NumSkinClasses == 7

\* the running statistics of every child, in stack order
RunningStats(m) ==
  [i \in 1..Len(m.layers) |-> <<m.layers[i].running_mean, m.layers[i].running_var>>]

\* the preprocessed images of shape (N, 3, 224, 224)
Images(n) == {T(<<n, 3, 224, 224>>, v) : v \in {-1, 1, 2}}

PredOthers == <<col, lay, opt, trn>>

\* DermaScanPredictor.__init__ : the model is built; no weights are assigned
PredInit ==
  /\ LET r == BuildLayers(DermaScanLayers(NumSkinClasses)) IN
       /\ heap = r.h
       /\ model = NewSequential(r.layers)
       /\ ghost = [calls |-> 0, statsBefore |-> RunningStats(NewSequential(r.layers)),
                   evalOut |-> NoneT]
  /\ ret = [op |-> "none", arg |-> "None", err |-> "", out |-> NoneT]
  /\ col = Idle /\ lay = Idle /\ opt = Idle /\ trn = Idle

\* "self.model.training = False; output = self.model.forward(image)" of
\* predict (op = "predict", one image) and predict_batch (a batch of n)
PredictorForward(op, image, keep) ==
  LET m1 == [model EXCEPT !.training = FALSE]
      r == SeqForward(m1, heap, image, "None", keep)
  IN /\ model' = r.m
     /\ heap' = r.h
     /\ ret' = [op |-> op, arg |-> "None", err |-> r.err, out |-> r.out]
     /\ ghost' = [calls |-> ghost.calls + 1, statsBefore |-> RunningStats(model),
                  evalOut |-> SeqForward(model, heap, image, "False", keep).out]

\* DermaScanPredictor.predict
Predict ==
  /\ ghost.calls < MaxPredicts
  /\ \E image \in Images(1), keep \in 0..1 : PredictorForward("predict", image, keep)
  /\ UNCHANGED PredOthers

\* DermaScanPredictor.predict_batch
PredictBatch ==
  /\ ghost.calls < MaxPredicts
  /\ \E n \in 1..2 : \E images \in Images(n), keep \in 0..1 :
        PredictorForward("predict_batch", images, keep)
  /\ UNCHANGED PredOthers

PredNext == Predict \/ PredictBatch

SpecPredict == PredInit /\ [][PredNext]_vars

\* ------------------------------------------------------------------------
\* C3
\* ------------------------------------------------------------------------
\* C3: in predict and predict_batch the forward pass runs with every child
\* in eval mode, as model.forward(tensor, training=false) would: Dropout is
\* the identity (no mask is drawn), BatchNorm2D leaves its running statistics
\* alone, and the output is the eval-mode output.
C3_PredictRunsInEvalMode ==
  (ret.op \in {"predict", "predict_batch"} /\ ret.err = "") =>
     /\ \A i \in 1..Len(model.layers) : ~model.layers[i].training
     /\ \A i \in 1..Len(model.layers) :
           model.layers[i].kind = "Dropout" => IsNone(model.layers[i].mask)
     /\ RunningStats(model) = ghost.statsBefore
     /\ ret.out = ghost.evalOut


\* ------------------------------------------------------------------------
\* src/core/optim.py : SGD, Adam
\* ------------------------------------------------------------------------
\* A ParamDict maps a key to the index of its array on the heap.  lr,
\* momentum and weight_decay are whole numbers; the Adam betas are in tenths
\* and the Adam moments are stored times FP.  A quotient of reals is taken
\* down to a whole number.

\* SGD.__init__ : _velocity = None
NewSGD(lr, momentum, nesterov, weight_decay, clip_set, clip_grad_norm) ==
  [kind |-> "SGD", lr |-> lr, momentum |-> momentum, nesterov |-> nesterov,
   weight_decay |-> weight_decay, clip_set |-> clip_set, clip_grad_norm |-> clip_grad_norm,
   has_velocity |-> FALSE, velocity |-> EmptyDict,
   b1 |-> 0, b2 |-> 0, has_m |-> FALSE, m |-> EmptyDict, has_v |-> FALSE, v |-> EmptyDict, t |-> 0]

\* Adam.__init__ : _m = None, _v = None, _t = 0
NewAdam(lr, b1, b2, weight_decay, clip_set, clip_grad_norm) ==
  [kind |-> "Adam", lr |-> lr, momentum |-> 0, nesterov |-> FALSE,
   weight_decay |-> weight_decay, clip_set |-> clip_set, clip_grad_norm |-> clip_grad_norm,
   has_velocity |-> FALSE, velocity |-> EmptyDict,
   b1 |-> b1, b2 |-> b2, has_m |-> FALSE, m |-> EmptyDict, has_v |-> FALSE, v |-> EmptyDict, t |-> 0]

OptRes(o, h) == [o |-> o, h |-> h]

\* the key under which dict d holds array i
KeyOf(d, i) == CHOOSE k \in DOMAIN d : d[k] = i

\* the arrays a dict refers to
Ids(d) == {d[k] : k \in DOMAIN d}

\* "{k: np.zeros_like(v) for k, v in params.items()}" : new arrays, appended
\* to the heap in the order of the keys' arrays
ZerosLike(h, params) ==
  LET ids == Ids(params)
      rank(i) == Cardinality({j \in ids : j <= i})
  IN [h |-> h \o [n \in 1..Cardinality(ids) |->
                    T(h[CHOOSE i \in ids : rank(i) = n].shape, 0)],
      d |-> [k \in DOMAIN params |-> Len(h) + rank(params[k])]]

\* "grads[k] = grads[k] + self.weight_decay * params[k]" for k in grads:
\* every entry of the dict is rebound to a new array
AddWeightDecay(o, h, params, grads) ==
  LET z == ZerosLike(h, grads)
  IN [h |-> [i \in DOMAIN z.h |->
               IF i \in Ids(z.d)
               THEN LET k == KeyOf(z.d, i)
                    IN T(h[grads[k]].shape, h[grads[k]].v + o.weight_decay * h[params[k]].v)
               ELSE z.h[i]],
      grads |-> z.d]

\* total_sq of _maybe_clip : the sum of np.sum(g * g) over grads.values()
TotalSq(h, grads) ==
  SumF([k \in DOMAIN grads |->
          Prod(h[grads[k]].shape) * h[grads[k]].v * h[grads[k]].v], DOMAIN grads)

\* g * (clip_grad_norm / norm) with norm = sqrt(total_sq) + 1e-12
Scaled(g, clip, total_sq) ==
  IF total_sq = 0 THEN 0 ELSE Sign(g) * Isqrt(((g * clip) * (g * clip)) \div total_sq)

\* SGD._maybe_clip / Adam._maybe_clip : "grads[k] *= scale" writes into the
\* arrays the dict holds
MaybeClip(o, h, grads) ==
  LET total_sq == TotalSq(h, grads)
  IN IF ~o.clip_set THEN h
     ELSE IF total_sq < o.clip_grad_norm * o.clip_grad_norm /\ o.clip_grad_norm > 0 THEN h
     ELSE [i \in DOMAIN h |->
             IF i \in Ids(grads)
             THEN T(h[i].shape, Scaled(h[i].v, o.clip_grad_norm, total_sq))
             ELSE h[i]]

\* _maybe_clip run before the weight decay is added
ClipThenDecay(o, h, params, grads) ==
  LET h1 == MaybeClip(o, h, grads)
  IN IF o.weight_decay > 0 THEN AddWeightDecay(o, h1, params, grads)
     ELSE [h |-> h1, grads |-> grads]

\* "if self.weight_decay > 0.0: ..." followed by "self._maybe_clip(grads)"
DecayThenClip(o, h, params, grads) ==
  LET r == IF o.weight_decay > 0 THEN AddWeightDecay(o, h, params, grads)
           ELSE [h |-> h, grads |-> grads]
  IN [h |-> MaybeClip(o, r.h, r.grads), grads |-> r.grads]

\* a velocity dict made anew by every step
RecreateVelocity(o, h, params) ==
  LET z == ZerosLike(h, params)
  IN OptRes([o EXCEPT !.has_velocity = TRUE, !.velocity = z.d], z.h)

\* "if self._velocity is None: self._velocity = {k: np.zeros_like(v) ...}"
EnsureVelocity(o, h, params) ==
  IF o.has_velocity THEN OptRes(o, h)
  ELSE LET z == ZerosLike(h, params)
       IN OptRes([o EXCEPT !.has_velocity = TRUE, !.velocity = z.d], z.h)

\* "params[k] = params[k] - delta" : the dict entry is rebound to a new
\* array and the array the layer holds keeps its values
RebindSub(h, params, delta) ==
  h \o [n \in 1..Cardinality(Ids(params)) |->
          LET i == CHOOSE i \in Ids(params) : Cardinality({j \in Ids(params) : j <= i}) = n
          IN T(h[i].shape, h[i].v - delta[KeyOf(params, i)])]

\* "params[k] -= delta[k]" for k in params : written into the arrays
InPlaceSub(h, params, delta) ==
  [i \in DOMAIN h |->
     IF i \in Ids(params) THEN T(h[i].shape, h[i].v - delta[KeyOf(params, i)]) ELSE h[i]]

\* the momentum branch with the velocity update "v = momentum * (v + grad)"
SGDUpdateScaledSum(o, h, params, grads) ==
  LET vNew == [k \in DOMAIN params |->
                 o.momentum * (h[o.velocity[k]].v + h[grads[k]].v)]
      hv == [i \in DOMAIN h |->
               IF i \in Ids(o.velocity)
               THEN T(h[i].shape, vNew[KeyOf(o.velocity, i)]) ELSE h[i]]
  IN IF o.momentum = 0
     THEN InPlaceSub(h, params, [k \in DOMAIN params |-> o.lr * h[grads[k]].v])
     ELSE InPlaceSub(hv, params,
            [k \in DOMAIN params |->
               IF o.nesterov THEN o.lr * (o.momentum * vNew[k] + h[grads[k]].v)
               ELSE o.lr * vNew[k]])

\* SGD.step from "if self.momentum == 0.0" on: the plain update, or
\* "v *= momentum; v += grads[k]" written into the velocity arrays and the
\* momentum / Nesterov update
SGDUpdate(o, h, params, grads) ==
  LET vNew == [k \in DOMAIN params |->
                 h[o.velocity[k]].v * o.momentum + h[grads[k]].v]
      hv == [i \in DOMAIN h |->
               IF i \in Ids(o.velocity)
               THEN T(h[i].shape, vNew[KeyOf(o.velocity, i)]) ELSE h[i]]
  IN IF o.momentum = 0
     THEN InPlaceSub(h, params, [k \in DOMAIN params |-> o.lr * h[grads[k]].v])
     ELSE InPlaceSub(hv, params,
            [k \in DOMAIN params |->
               IF o.nesterov THEN o.lr * (o.momentum * vNew[k] + h[grads[k]].v)
               ELSE o.lr * vNew[k]])

\* SGD.step
SGDStep(o, h, params, grads) ==
  LET e == EnsureVelocity(o, h, params)
      c == DecayThenClip(e.o, e.h, params, grads)
  IN OptRes(e.o, SGDUpdate(e.o, c.h, params, c.grads))

\* b ** t for a beta of b tenths, stored times FP
RECURSIVE BetaPow(_, _)
BetaPow(b, t) == IF t = 0 THEN FP ELSE (b * BetaPow(b, t - 1)) \div 10

\* m = b1 * m + (1 - b1) * g, stored times FP
AdamM(o, m, g) == (o.b1 * m + (10 - o.b1) * g * FP) \div 10

\* v = b2 * v + (1 - b2) * (g * g), stored times FP
AdamV(o, v, g) == (o.b2 * v + (10 - o.b2) * g * g * FP) \div 10

\* lr * m_hat / (np.sqrt(v_hat) + eps) with m_hat = m / (1 - b1 ** t) and
\* v_hat = v / (1 - b2 ** t)
AdamDelta(o, m, v, t) ==
  LET m_hat == (m * FP) \div (FP - BetaPow(o.b1, t))
      v_hat == (v * FP) \div (FP - BetaPow(o.b2, t))
      den == Isqrt(v_hat * FP)
  IN IF den = 0 THEN 0 ELSE Sign(m_hat) * ((o.lr * Sign(m_hat) * m_hat) \div den)

\* Adam.step
AdamStep(o, h, params, grads) ==
  LET m0 == IF o.has_m THEN o.m ELSE [k \in DOMAIN params |-> 0]
      v0 == IF o.has_v THEN o.v ELSE [k \in DOMAIN params |-> 0]
      c == DecayThenClip(o, h, params, grads)
      t == o.t + 1
      m == [k \in DOMAIN params |-> AdamM(o, m0[k], c.h[c.grads[k]].v)]
      v == [k \in DOMAIN params |-> AdamV(o, v0[k], c.h[c.grads[k]].v)]
  IN OptRes([o EXCEPT !.has_m = TRUE, !.has_v = TRUE, !.m = m, !.v = v, !.t = t],
            InPlaceSub(c.h, params, [k \in DOMAIN params |-> AdamDelta(o, m[k], v[k], t)]))

\* optimizer.step(params, grads)
Step(o, h, params, grads) ==
  IF o.kind = "SGD" THEN SGDStep(o, h, params, grads) ELSE AdamStep(o, h, params, grads)

\* the floor 1e-12 of _set_lr, in the unit of the learning rates: a quarter
\* of the floor, so that a positive rate below the floor has a value
LrFloor == 4

\* LRScheduler._set_lr : "if lr <= 0: lr = 1e-12"
SetLr(o, lr) == [o EXCEPT !.lr = IF lr <= 0 THEN LrFloor ELSE lr]

\* no scheduler was passed
NoScheduler ==
  [kind |-> "none", base_lr |-> 0, max_lr |-> 0, min_lr |-> 0, step_size |-> 1,
   gamma_den |-> 1, T_max |-> 1, warmup_epochs |-> 0]

\* StepLR(optimizer, step_size, gamma) with gamma = 1 / gamma_den
NewStepLR(o, step_size, gamma_den) ==
  [NoScheduler EXCEPT !.kind = "step", !.base_lr = o.lr, !.step_size = step_size,
                      !.gamma_den = gamma_den]

\* CosineAnnealingLR(optimizer, T_max, min_lr)
NewCosineAnnealingLR(o, T_max, min_lr) ==
  [NoScheduler EXCEPT !.kind = "cosine", !.max_lr = o.lr, !.T_max = T_max, !.min_lr = min_lr]

\* WarmupCosineLR(optimizer, warmup_epochs, T_max, max_lr, base_lr, min_lr)
NewWarmupCosineLR(o, warmup_epochs, T_max, max_lr, base_lr, min_lr) ==
  [NoScheduler EXCEPT !.kind = "warmup_cosine", !.warmup_epochs = warmup_epochs,
                      !.T_max = T_max, !.max_lr = max_lr, !.base_lr = base_lr,
                      !.min_lr = min_lr]

\* 2 * math.cos(math.pi * num / den), exact for the angles with a rational
\* cosine: num / den in {0, 1/3, 1/2, 2/3, 1}
Cos2(num, den) ==
  CASE num = 0 -> 2
    [] 3 * num = den -> 1
    [] 2 * num = den -> 0
    [] 3 * num = 2 * den -> 0 - 1
    [] OTHER -> 0 - 2

\* the horizons T_max whose angles all have a rational cosine
CosineHorizons == {1, 2, 3}

Min2(a, b) == IF a < b THEN a ELSE b

Max2(a, b) == IF a > b THEN a ELSE b

\* "min_lr + 0.5 * (max_lr - min_lr) * (1 + cos(pi * t / T_max))"
CosineLr(s, t) == s.min_lr + ((s.max_lr - s.min_lr) * (2 + Cos2(t, s.T_max))) \div 4

\* StepLR.step : "base_lr * gamma ** (epoch // step_size)"
StepLRLr(s, epoch) == s.base_lr \div (s.gamma_den ^ (epoch \div s.step_size))

\* CosineAnnealingLR.step : "t = min(max(epoch, 1), T_max)", angle pi * (t - 1) / T_max
CosineAnnealingLRLr(s, epoch) == CosineLr(s, Min2(Max2(epoch, 1), s.T_max) - 1)

\* WarmupCosineLR.step
WarmupCosineLRLr(s, epoch) ==
  IF epoch <= s.warmup_epochs
  THEN s.base_lr + ((s.max_lr - s.base_lr) * epoch) \div s.warmup_epochs
  ELSE CosineLr(s, Min2(epoch - s.warmup_epochs, s.T_max))

\* the rate scheduler.step(epoch) hands to _set_lr
SchedulerLr(s, epoch) ==
  CASE s.kind = "step" -> StepLRLr(s, epoch)
    [] s.kind = "cosine" -> CosineAnnealingLRLr(s, epoch)
    [] OTHER -> WarmupCosineLRLr(s, epoch)

\* scheduler.step(epoch) that leaves a rate a callback set in place
SchedulerStepKeepsLower(s, epoch, o) ==
  IF o.lr < SchedulerLr(s, epoch) THEN o ELSE SetLr(o, SchedulerLr(s, epoch))

\* scheduler.step(epoch) : the optimizer afterwards
SchedulerStepLr(s, epoch, o) == SetLr(o, SchedulerLr(s, epoch))


\* ------------------------------------------------------------------------
\* A model trained by an optimizer: the batch body of src/train/loop.py
\* ------------------------------------------------------------------------
\* a small stack with parameters of every kind: W, b, gamma, beta
OptStack == <<Conv(1, 1, 2, 1, 0), Bn(1), Fc(1, 2)>>

\* the optimizers under study
OptChoices ==
  {NewSGD(1, mu, nes, wd, cs, 4) :
     mu \in 0..2, nes \in BOOLEAN, wd \in 0..1, cs \in BOOLEAN}
  \cup {NewAdam(1, 9, 9, wd, cs, 4) : wd \in 0..1, cs \in BOOLEAN}

\* mini-batches of shape (N, 1, 2, 2) and the loss gradients of shape (N, 2)
OptBatches == {T(<<n, 1, 2, 2>>, 1) : n \in 1..2}
OptLossGrads(n) == {T(<<n, 2>>, v) : v \in {-1, 2}}

OptOthers == <<col, lay, trn>>

\* model = Sequential(...); optimizer = SGD(...) or Adam(...); a caller
\* keeps the mapping model.params() returned before training (ghost.held)
OptInit ==
  /\ LET r == BuildLayers(OptStack) IN
       /\ heap = r.h
       /\ model = NewSequential(r.layers)
       /\ ghost = [steps |-> 0, pending |-> FALSE, held |-> SeqParams(NewSequential(r.layers))]
  /\ opt \in OptChoices
  /\ ret = [op |-> "none", arg |-> "None", err |-> "", out |-> NoneT]
  /\ col = Idle /\ lay = Idle /\ trn = Idle

\* logits = model.forward(xb, training=True); ...; model.backward(dlogits):
\* the first half of a batch of the loop
OptBackprop ==
  /\ ~ghost.pending /\ ghost.steps < MaxSteps
  /\ \E xb \in OptBatches : \E dlogits \in OptLossGrads(xb.shape[1]) :
       LET f == SeqForward(model, heap, xb, "True", 1)
           b == SeqBackward(f.m, f.h, dlogits)
       IN /\ model' = b.m
          /\ heap' = b.h
          /\ ret' = [op |-> "backward", arg |-> "True", err |-> b.err, out |-> b.out]
  /\ ghost' = [ghost EXCEPT !.pending = TRUE]
  /\ UNCHANGED <<opt, col, lay, trn>>

\* optimizer.step(model.params(), model.grads()): the second half
OptStep ==
  /\ ghost.pending
  /\ LET r == Step(opt, heap, SeqParams(model), SeqGrads(model)) IN
       /\ opt' = r.o
       /\ heap' = r.h
  /\ ret' = [op |-> "step", arg |-> "None", err |-> "", out |-> NoneT]
  /\ ghost' = [ghost EXCEPT !.steps = @ + 1, !.pending = FALSE]
  /\ UNCHANGED <<model, col, lay, trn>>

\* a scheduler or callback assigns optimizer.lr between two batches
OptSetLr ==
  /\ ~ghost.pending
  /\ \E lr \in 1..MaxLr : lr # opt.lr /\ opt' = SetLr(opt, lr)
  /\ ret' = [op |-> "set_lr", arg |-> "None", err |-> "", out |-> NoneT]
  /\ UNCHANGED <<heap, model, ghost, col, lay, trn>>

OptNext == OptBackprop \/ OptStep \/ OptSetLr

SpecOpt == OptInit /\ [][OptNext]_vars


\* ------------------------------------------------------------------------
\* C6 - C9
\* ------------------------------------------------------------------------
\* the step taken is optimizer.step(model.params(), model.grads())
IsStep == ghost'.steps = ghost.steps + 1

\* the value of parameter k and of its gradient before the step
ParamV(k) == heap[SeqParams(model)[k]].v
GradV(k) == heap[SeqGrads(model)[k]].v

\* the same parameter read after the step through the model's layers
ParamAfter(k) == heap'[SeqParams(model')[k]].v

\* grad + wd * param, its squared global norm, and clip(grad + wd * param)
Decayed(k) == GradV(k) + opt.weight_decay * ParamV(k)
DecayedSq ==
  SumF([k \in DOMAIN SeqGrads(model) |->
          Prod(heap[SeqGrads(model)[k]].shape) * Decayed(k) * Decayed(k)],
       DOMAIN SeqGrads(model))
EffGrad(k) ==
  IF opt.clip_set /\ DecayedSq >= opt.clip_grad_norm * opt.clip_grad_norm
  THEN Scaled(Decayed(k), opt.clip_grad_norm, DecayedSq)
  ELSE Decayed(k)

\* the velocity of k before the step (zero when none exists yet) and after it
VelBefore(k) == IF opt.has_velocity THEN heap[opt.velocity[k]].v ELSE 0
VelAfter(k) == heap'[opt'.velocity[k]].v

\* C6: optimizer.step(model.params(), model.grads()) updates the model's own
\* storage in place: every layer still holds the same array objects, so a
\* params() mapping obtained earlier still refers to them, no array changes
\* shape, and the arrays hold the values the step has computed.
C6_InPlaceUpdate ==
  [][IsStep =>
       /\ SeqParams(model') = SeqParams(model)
       /\ SeqParams(model') = ghost.held
       /\ \A k \in DOMAIN ghost.held :
            /\ heap'[ghost.held[k]].shape = heap[ghost.held[k]].shape
            /\ heap'[ghost.held[k]].v = ParamV(k) -
                 (IF opt.kind = "Adam"
                  THEN AdamDelta(opt, opt'.m[k], opt'.v[k], opt'.t)
                  ELSE IF opt.momentum = 0 THEN opt.lr * EffGrad(k)
                  ELSE IF opt.nesterov THEN opt.lr * (opt.momentum * VelAfter(k) + EffGrad(k))
                  ELSE opt.lr * VelAfter(k))]_vars

\* a step has moved Dense.b and BatchNorm2D.beta away from their initial
\* zeros, in the arrays the mapping held since construction refers to
C6_Witness ==
  /\ ret.op = "step"
  /\ SeqParams(model) = ghost.held
  /\ heap[ghost.held["2.Dense.b"]].v # 0
  /\ heap[ghost.held["1.BatchNorm2D.beta"]].v # 0

C8_DecayBeforeClip ==
  [][(IsStep /\ opt.weight_decay > 0 /\ opt.clip_set) =>
       \A k \in DOMAIN SeqParams(model) :
         /\ (opt.kind = "SGD" /\ opt.momentum = 0) =>
              ParamAfter(k) = ParamV(k) - opt.lr * EffGrad(k)
         /\ (opt.kind = "SGD" /\ opt.momentum > 0) =>
              VelAfter(k) = opt.momentum * VelBefore(k) + EffGrad(k)
         /\ (opt.kind = "Adam") =>
              opt'.m[k] = AdamM(opt, IF opt.has_m THEN opt.m[k] ELSE 0, EffGrad(k))]_vars

\* the first step of plain SGD with wd = 1 and threshold 4 on the initial
\* model: Conv2D.W = 2 has the decayed gradient 2, the global norm exceeds 4,
\* and the weight moves by the clipped value 1 (neither by 2 nor by 0)
C8_Witness ==
  /\ ret.op = "step" /\ ghost.steps = 1
  /\ opt.kind = "SGD" /\ opt.momentum = 0 /\ opt.lr = 1
  /\ opt.weight_decay > 0 /\ opt.clip_set
  /\ heap[SeqParams(model)["0.Conv2D.W"]].v = 1

\* C9: SGD.step with momentum == 0 gives param - lr * grad; with momentum > 0
\* the velocity becomes momentum * v + grad (v starting from zero) and the
\* parameter param - lr * v, or param - lr * (momentum * v + grad) with the
\* new v under nesterov; lr is the optimizer's lr when step is called.
C9_SGDUpdateRule ==
  [][(IsStep /\ opt.kind = "SGD") =>
       \A k \in DOMAIN SeqParams(model) :
         LET g == EffGrad(k)
             v == opt.momentum * VelBefore(k) + g
         IN IF opt.momentum = 0
            THEN ParamAfter(k) = ParamV(k) - opt.lr * g
            ELSE /\ VelAfter(k) = v
                 /\ ParamAfter(k) = ParamV(k) -
                      opt.lr * (IF opt.nesterov THEN opt.momentum * v + g ELSE v)]_vars

\* two Nesterov steps with momentum 2, the second under an lr that was
\* changed after construction, with a velocity carrying both gradients
C9_Witness ==
  /\ ret.op = "step" /\ ghost.steps >= 2
  /\ opt.kind = "SGD" /\ opt.momentum = 2 /\ opt.nesterov /\ opt.lr = 2
  /\ heap[opt.velocity["2.Dense.b"]].v = 3


\* ------------------------------------------------------------------------
\* src/train/loop.py : train
\* ------------------------------------------------------------------------
\* One record per observable event of the loop: what happened (ev), the
\* epoch, the batch start or the callback position (i), and a tag (the mode
\* of a forward pass, the name of a callback).
Ev(ev, epoch, i, tag) == [ev |-> ev, epoch |-> epoch, i |-> i, tag |-> tag]

\* the callback lists under study (src/train/callbacks.py), in registration
\* order; a callback is called for its effect outside the loop
CallbackLists ==
  {<<>>, <<"EarlyStopping">>, <<"ModelCheckpoint", "ReduceLROnPlateau">>}

\* the arguments of train(); val is -1 for val_data = None, else the number
\* of validation samples; patience is the patience the callbacks of the
\* list were created with
TrainCalls ==
  [epochs : 1..MaxEpochs, N : 0..MaxTrain, batch_size : 1..MaxBatchSize,
   val : (0 - 1)..MaxVal, log : BOOLEAN, callbacks : CallbackLists, scheduler : BOOLEAN,
   patience : 1..MaxPatience]

\* np.inf, as a number above every metric
Inf == 99

\* float("nan") : every comparison with it is false
NaN == 0 - 1

\* the values a validation loss or accuracy takes
MetricLevels == {1, 2}

\* "value < best if mode == "min" else value > best"
Improved(mode, value, best) ==
  /\ value # NaN
  /\ IF mode = "min" THEN value < best ELSE value > best

\* the closure a callback factory returns: its arguments and its nonlocals
NewCallback(name, patience) ==
  [name |-> name,
   monitor |-> IF name = "ModelCheckpoint" THEN "val_acc" ELSE "val_loss",
   mode |-> IF name = "ModelCheckpoint" THEN "max" ELSE "min",
   patience |-> patience,
   best |-> IF name = "ModelCheckpoint" THEN 0 - Inf ELSE Inf,
   wait |-> 0, stopped |-> FALSE]

\* an EarlyStopping closure that clears its flag when the value improves
EarlyStoppingCallResets(cb, value) ==
  IF Improved(cb.mode, value, cb.best)
  THEN [cb EXCEPT !.best = value, !.wait = 0, !.stopped = FALSE]
  ELSE [cb EXCEPT !.wait = @ + 1,
                  !.stopped = IF cb.wait + 1 >= cb.patience THEN TRUE ELSE @]

\* EarlyStopping(...).cb(state)
EarlyStoppingCall(cb, value) ==
  IF Improved(cb.mode, value, cb.best)
  THEN [cb EXCEPT !.best = value, !.wait = 0]
  ELSE [cb EXCEPT !.wait = @ + 1,
                  !.stopped = IF cb.wait + 1 >= cb.patience THEN TRUE ELSE @]

\* ModelCheckpoint(...).cb(state) : the closure; the file is SavedWeights
ModelCheckpointCall(cb, value) ==
  IF Improved(cb.mode, value, cb.best) THEN [cb EXCEPT !.best = value] ELSE cb

\* save_weights : np.savez(path, **params), name -> contents of the array
SavedWeights(m, h) == [k \in DOMAIN SeqParams(m) |-> h[SeqParams(m)[k]]]

\* ReduceLROnPlateau(...).cb(state) : the closure
ReduceLROnPlateauCall(cb, value) ==
  IF Improved(cb.mode, value, cb.best)
  THEN [cb EXCEPT !.best = value, !.wait = 0]
  ELSE [cb EXCEPT !.wait = IF cb.wait + 1 >= cb.patience THEN 0 ELSE @ + 1]

\* "optimizer.lr *= factor" with factor = 0.5, when the patience is used up
ReducedLr(cb, value, o) ==
  IF ~Improved(cb.mode, value, cb.best) /\ cb.wait + 1 >= cb.patience
  THEN [o EXCEPT !.lr = o.lr \div 2] ELSE o

\* cb(state) for any of the three callbacks
CallbackCall(cb, value) ==
  CASE cb.name = "EarlyStopping" -> EarlyStoppingCall(cb, value)
    [] cb.name = "ModelCheckpoint" -> ModelCheckpointCall(cb, value)
    [] OTHER -> ReduceLROnPlateauCall(cb, value)

\* no checkpoint file has been written
NoFile == [exists |-> FALSE, data |-> EmptyDict]

\* a line of the csv log: the header, or the row of an epoch
CsvLine(kind, epoch) == [kind |-> kind, epoch |-> epoch]

\* callbacks[i - 1] counted from the end of the list
CallbackAtReversed(callbacks, i) == callbacks[Len(callbacks) - i + 1]

\* the i-th callback of "for cb in callbacks"
CallbackAt(callbacks, i) == callbacks[i]

\* end = min(start + batch_size, n_samples) of make_batches
BatchEnd(start, batch_size, n) ==
  IF start + batch_size < n THEN start + batch_size ELSE n

\* softmax_cross_entropy_backward : (probs - y) / N at the entry of the
\* true class, which is negative
LossGrad(logits) == T(logits.shape, 0 - 1)

\* "for start, end in make_batches(X_val.shape[0], batch_size):
\*    logits = model.forward(xb, training=False)" from batch start on
RECURSIVE ValForwardFrom(_, _, _, _, _)
ValForwardFrom(m, h, start, batch_size, n) ==
  IF start >= n THEN SeqRes(m, h, NoneT, "")
  ELSE LET xb == T(<<BatchEnd(start, batch_size, n) - start, 1, 2, 2>>, 1)
           r == SeqForward(m, h, xb, "False", 1)
       IN IF r.err # "" THEN r
          ELSE ValForwardFrom(r.m, r.h, start + batch_size, batch_size, n)

\* the mode every validation forward ran in, one entry per batch: "eval"
\* when the container and all layers had training = False during it
RECURSIVE ValModesFrom(_, _, _, _, _)
ValModesFrom(m, h, start, batch_size, n) ==
  IF start >= n THEN <<>>
  ELSE LET xb == T(<<BatchEnd(start, batch_size, n) - start, 1, 2, 2>>, 1)
           r == SeqForward(m, h, xb, "False", 1)
       IN <<IF AllFlags(r.m, FALSE) THEN "eval" ELSE "training">>
          \o (IF r.err # "" THEN <<>>
              ELSE ValModesFrom(r.m, r.h, start + batch_size, batch_size, n))

TrnOthers == <<col, lay, ret, ghost>>

\* the call train(model, optimizer, train_data, val_data, ...)
\* the schedulers passed to train(), built on the optimizer before the call
TrainSchedulers(o) ==
  {NewStepLR(o, 2, 2), NewCosineAnnealingLR(o, 2, LrFloor),
   NewWarmupCosineLR(o, 1, 2, 2 * o.lr, o.lr, LrFloor)}

TrnInit ==
  /\ LET r == BuildLayers(OptStack) IN
       /\ heap = r.h
       /\ model = NewSequential(r.layers)
  /\ opt \in {NewSGD(2 * LrFloor, 1, FALSE, 0, FALSE, 4),
              NewAdam(2 * LrFloor, 9, 9, 0, FALSE, 4)}
  /\ \E c \in TrainCalls :
     \E s \in (IF c.scheduler THEN TrainSchedulers(opt) ELSE {NoScheduler}) :
       trn = [pc |-> "call", cfg |-> c, epoch |-> 0, start |-> 0, cb |-> 0,
              sched |-> s, lr0 |-> opt.lr, cb_lr |-> opt.lr,
              cbs |-> [i \in 1..Len(c.callbacks) |-> NewCallback(c.callbacks[i], c.patience)],
              val_loss |-> NaN, val_acc |-> NaN, file |-> NoFile, val_modes |-> <<>>,
              total_seen |-> 0, logits |-> NoneT, grad |-> NoneT,
              history |-> [train_loss |-> <<>>, train_acc |-> <<>>,
                           val_loss |-> <<>>, val_acc |-> <<>>],
              csv |-> <<>>, trace |-> <<>>, err |-> ""]
  /\ ret = NoRet /\ ghost = Idle /\ col = Idle /\ lay = Idle

Emit(e) == Append(trn.trace, e)

\* lines 34-44: the history, the csv header, model.train()
TrainBegin ==
  /\ trn.pc = "call"
  /\ model' = SeqTrain(model)
  /\ trn' = [trn EXCEPT !.pc = "epoch", !.epoch = 1,
                        !.csv = IF trn.cfg.log THEN <<CsvLine("header", 0)>> ELSE <<>>]
  /\ UNCHANGED <<heap, opt, col, lay, ret, ghost>>

\* a loop that returns as soon as an EarlyStopping callback has stopped
EpochBeginUnlessStopped ==
  /\ trn.pc = "epoch"
  /\ trn' = IF trn.epoch > trn.cfg.epochs \/ (\E i \in 1..Len(trn.cbs) : trn.cbs[i].stopped)
            THEN [trn EXCEPT !.pc = "done"]
            ELSE [trn EXCEPT !.start = 0, !.total_seen = 0,
                             !.pc = IF trn.cfg.N > 0 THEN "forward" ELSE "metrics"]
  /\ UNCHANGED <<model, heap, opt, col, lay, ret, ghost>>

\* "for epoch in range(1, epochs + 1)": the next epoch starts, or train
\* returns the history
EpochBegin ==
  /\ trn.pc = "epoch"
  /\ trn' = IF trn.epoch > trn.cfg.epochs THEN [trn EXCEPT !.pc = "done"]
            ELSE [trn EXCEPT !.start = 0, !.total_seen = 0,
                             !.pc = IF trn.cfg.N > 0 THEN "forward" ELSE "metrics"]
  /\ UNCHANGED <<model, heap, opt, col, lay, ret, ghost>>

\* logits = model.forward(xb, training=True)
BatchForward ==
  /\ trn.pc = "forward"
  /\ LET xb == T(<<BatchEnd(trn.start, trn.cfg.batch_size, trn.cfg.N) - trn.start, 1, 2, 2>>, 1)
         r == SeqForward(model, heap, xb, "True", 1)
     IN /\ model' = r.m
        /\ heap' = r.h
        /\ trn' = [trn EXCEPT !.pc = "loss", !.logits = r.out,
                     !.trace = Emit(Ev("forward", trn.epoch, trn.start,
                                       IF AllFlags(r.m, TRUE) THEN "training" ELSE "eval"))]
  /\ UNCHANGED <<opt, col, lay, ret, ghost>>

\* loss = softmax_cross_entropy(logits, y_one)
BatchLoss ==
  /\ trn.pc = "loss"
  /\ trn' = [trn EXCEPT !.pc = "loss_backward",
                        !.trace = Emit(Ev("loss", trn.epoch, trn.start, ""))]
  /\ UNCHANGED <<model, heap, opt, col, lay, ret, ghost>>

\* grad_logits = softmax_cross_entropy_backward(logits, y_one)
BatchLossBackward ==
  /\ trn.pc = "loss_backward"
  /\ trn' = [trn EXCEPT !.pc = "backward", !.grad = LossGrad(trn.logits),
                        !.trace = Emit(Ev("loss_backward", trn.epoch, trn.start, ""))]
  /\ UNCHANGED <<model, heap, opt, col, lay, ret, ghost>>

\* grad = model.backward(grad)
BatchBackward ==
  /\ trn.pc = "backward"
  /\ LET r == SeqBackward(model, heap, trn.grad)
     IN /\ model' = r.m
        /\ heap' = r.h
        /\ trn' = [trn EXCEPT !.pc = "step",
                     !.trace = Emit(Ev("backward", trn.epoch, trn.start, ""))]
  /\ UNCHANGED <<opt, col, lay, ret, ghost>>

\* optimizer.step(model.params(), model.grads()) and the running totals;
\* then the next batch, or the epoch's train_loss and train_acc
BatchStep ==
  /\ trn.pc = "step"
  /\ LET r == Step(opt, heap, SeqParams(model), SeqGrads(model))
         end == BatchEnd(trn.start, trn.cfg.batch_size, trn.cfg.N)
     IN /\ opt' = r.o
        /\ heap' = r.h
        /\ trn' = [trn EXCEPT !.total_seen = @ + (end - trn.start),
                     !.start = @ + trn.cfg.batch_size,
                     !.pc = IF trn.start + trn.cfg.batch_size < trn.cfg.N
                            THEN "forward" ELSE "metrics",
                     !.trace = Emit(Ev("step", trn.epoch, trn.start, ""))]
  /\ UNCHANGED <<model, col, lay, ret, ghost>>

\* train_loss = total_loss / total_seen
EpochMetrics ==
  /\ trn.pc = "metrics"
  /\ trn' = IF trn.total_seen = 0
            THEN [trn EXCEPT !.pc = "raised", !.err = "ZeroDivisionError"]
            ELSE [trn EXCEPT !.pc = "validation"]
  /\ UNCHANGED <<model, heap, opt, col, lay, ret, ghost>>

\* a validation phase that does not call model.train() at its end
ValidateStaysEval ==
  /\ trn.pc = "validation"
  /\ IF trn.cfg.val < 0
     THEN /\ trn' = [trn EXCEPT !.pc = "history", !.val_loss = NaN, !.val_acc = NaN]
          /\ UNCHANGED <<model, heap>>
     ELSE LET r == ValForwardFrom(SeqEval(model), heap, 0, trn.cfg.batch_size, trn.cfg.val)
          IN IF trn.cfg.val = 0
             THEN /\ model' = r.m
                  /\ heap' = r.h
                  /\ trn' = [trn EXCEPT !.pc = "raised", !.err = "ValueError"]
             ELSE /\ model' = r.m
                  /\ heap' = r.h
                  /\ \E loss \in MetricLevels, acc \in MetricLevels :
                       trn' = [trn EXCEPT !.pc = "history",
                                 !.val_loss = loss, !.val_acc = acc,
                                 !.val_modes = ValModesFrom(SeqEval(model), heap, 0,
                                                            trn.cfg.batch_size, trn.cfg.val),
                                 !.trace = Emit(Ev("validation", trn.epoch, 0, ""))]
  /\ UNCHANGED <<opt, col, lay, ret, ghost>>

\* lines 82-99: model.eval(), the forward passes over the validation
\* batches, np.concatenate (which raises on an empty list), model.train()
Validate ==
  /\ trn.pc = "validation"
  /\ IF trn.cfg.val < 0
     THEN /\ trn' = [trn EXCEPT !.pc = "history", !.val_loss = NaN, !.val_acc = NaN]
          /\ UNCHANGED <<model, heap>>
     ELSE LET r == ValForwardFrom(SeqEval(model), heap, 0, trn.cfg.batch_size, trn.cfg.val)
          IN IF trn.cfg.val = 0
             THEN /\ model' = r.m
                  /\ heap' = r.h
                  /\ trn' = [trn EXCEPT !.pc = "raised", !.err = "ValueError"]
             ELSE /\ model' = SeqTrain(r.m)
                  /\ heap' = r.h
                  /\ \E loss \in MetricLevels, acc \in MetricLevels :
                       trn' = [trn EXCEPT !.pc = "history",
                                 !.val_loss = loss, !.val_acc = acc,
                                 !.val_modes = ValModesFrom(SeqEval(model), heap, 0,
                                                            trn.cfg.batch_size, trn.cfg.val),
                                 !.trace = Emit(Ev("validation", trn.epoch, 0, ""))]
  /\ UNCHANGED <<opt, col, lay, ret, ghost>>

\* history[...].append(...) for the four metrics
AppendHistory ==
  /\ trn.pc = "history"
  /\ trn' = [trn EXCEPT !.pc = "log",
                  !.history = [train_loss |-> Append(@.train_loss, "number"),
                               train_acc |-> Append(@.train_acc, "number"),
                               val_loss |-> Append(@.val_loss, trn.val_loss),
                               val_acc |-> Append(@.val_acc, trn.val_acc)],
                  !.trace = Emit(Ev("history", trn.epoch, 0, ""))]
  /\ UNCHANGED <<model, heap, opt, col, lay, ret, ghost>>

\* "if log_csv_path is not None: ... w.writerow([epoch, ...])"
LogRow ==
  /\ trn.pc = "log"
  /\ trn' = [trn EXCEPT
               !.pc = IF Len(trn.cfg.callbacks) > 0 THEN "callbacks" ELSE "scheduler",
               !.cb = 1,
               !.csv = IF trn.cfg.log THEN Append(@, CsvLine("row", trn.epoch)) ELSE @,
               !.trace = IF trn.cfg.log THEN Emit(Ev("log", trn.epoch, 0, "")) ELSE @]
  /\ UNCHANGED <<model, heap, opt, col, lay, ret, ghost>>

\* "for cb in callbacks: cb(state)" with state["epoch"] = epoch; the loop
\* does not look at what the callback did
RunCallback ==
  /\ trn.pc = "callbacks"
  /\ LET cb == trn.cbs[trn.cb]
         value == IF cb.monitor = "val_loss" THEN trn.val_loss ELSE trn.val_acc
         saves == cb.name = "ModelCheckpoint" /\ Improved(cb.mode, value, cb.best)
     IN /\ trn' = [trn EXCEPT
                     !.cb = @ + 1,
                     !.cbs[trn.cb] = CallbackCall(cb, value),
                     !.file = IF saves
                              THEN [exists |-> TRUE, data |-> SavedWeights(model, heap)]
                              ELSE @,
                     !.pc = IF trn.cb < Len(trn.cfg.callbacks) THEN "callbacks" ELSE "scheduler",
                     !.trace = Emit(Ev("callback", trn.epoch, trn.cb,
                                       CallbackAt(trn.cfg.callbacks, trn.cb)))]
        /\ opt' = IF cb.name = "ReduceLROnPlateau" THEN ReducedLr(cb, value, opt) ELSE opt
  /\ UNCHANGED <<model, heap, col, lay, ret, ghost>>

\* "if scheduler is not None: scheduler.step(epoch)", the end of the epoch
SchedulerStep ==
  /\ trn.pc = "scheduler"
  /\ trn' = [trn EXCEPT
               !.pc = "epoch", !.epoch = @ + 1, !.cb_lr = opt.lr,
               !.trace = IF trn.cfg.scheduler
                         THEN Emit(Ev("scheduler", trn.epoch, 0, "")) ELSE @]
  /\ opt' = IF trn.cfg.scheduler THEN SchedulerStepLr(trn.sched, trn.epoch, opt) ELSE opt
  /\ UNCHANGED <<model, heap, col, lay, ret, ghost>>

TrnNext ==
  \/ TrainBegin \/ EpochBegin
  \/ BatchForward \/ BatchLoss \/ BatchLossBackward \/ BatchBackward \/ BatchStep
  \/ EpochMetrics \/ Validate \/ AppendHistory \/ LogRow \/ RunCallback \/ SchedulerStep

SpecTrain == TrnInit /\ [][TrnNext]_vars


\* ------------------------------------------------------------------------
\* C10
\* ------------------------------------------------------------------------
\* the five events of a training batch, in order
BatchEvents == <<"forward", "loss", "loss_backward", "backward", "step">>

\* the number of mini-batches of n samples
NumBatches(n, batch_size) == (n + batch_size - 1) \div batch_size

\* the batch events of epoch e for the call c
EpochBatches(c, e) ==
  [j \in 1..(5 * NumBatches(c.N, c.batch_size)) |->
     Ev(BatchEvents[((j - 1) % 5) + 1], e, ((j - 1) \div 5) * c.batch_size,
        IF (j - 1) % 5 = 0 THEN "training" ELSE "")]

\* the events of a whole epoch e for the call c
EpochEvents(c, e) ==
  EpochBatches(c, e)
  \o (IF c.val >= 0 THEN <<Ev("validation", e, 0, "")>> ELSE <<>>)
  \o <<Ev("history", e, 0, "")>>
  \o (IF c.log THEN <<Ev("log", e, 0, "")>> ELSE <<>>)
  \o [j \in 1..Len(c.callbacks) |-> Ev("callback", e, j, c.callbacks[j])]
  \o (IF c.scheduler THEN <<Ev("scheduler", e, 0, "")>> ELSE <<>>)

\* the events of epochs 1..e
RECURSIVE EventsUpTo(_, _)
EventsUpTo(c, e) == IF e = 0 THEN <<>> ELSE EventsUpTo(c, e - 1) \o EpochEvents(c, e)

\* what the call c is expected to do: nothing observable with no training
\* sample (the epoch averages cannot be formed), the batches of epoch 1 with
\* an empty validation set, every epoch otherwise
ExpectedTrace(c) ==
  IF c.N = 0 THEN <<>>
  ELSE IF c.val = 0 THEN EpochBatches(c, 1)
  ELSE EventsUpTo(c, c.epochs)

IsPrefix(a, b) == Len(a) <= Len(b) /\ a = SubSeq(b, 1, Len(a))

\* C10: in every epoch the events happen in the order batches (forward in
\* training mode, loss, loss backward, model backward, optimizer.step), then
\* validation, history append, log row, every callback once in registration
\* order with the epoch's number, scheduler.step(epoch); every
\* optimizer.step directly follows the model backward of its own batch.
C10_EpochOrder ==
  /\ IsPrefix(trn.trace, ExpectedTrace(trn.cfg))
  /\ trn.pc = "done" => trn.trace = ExpectedTrace(trn.cfg)
  /\ \A j \in 1..Len(trn.trace) :
       trn.trace[j].ev = "step" =>
          /\ j > 1
          /\ trn.trace[j - 1] = Ev("backward", trn.trace[j].epoch, trn.trace[j].i, "")
  /\ \A j \in 1..Len(trn.history.train_loss) :
       \E k \in 1..Len(trn.trace) : trn.trace[k] = Ev("history", j, 0, "")

\* a finished run of two epochs with two batches each, validation, a log
\* file, two callbacks and a scheduler
C10_Witness ==
  /\ trn.pc = "done" /\ trn.cfg.epochs = 2
  /\ trn.cfg.N = 2 /\ trn.cfg.batch_size = 1 /\ trn.cfg.val > 0
  /\ trn.cfg.log /\ Len(trn.cfg.callbacks) = 2 /\ trn.cfg.scheduler
  /\ Len(trn.trace) = 2 * (5 * 2 + 6)
  /\ Len(trn.history.val_acc) = 2


\* ------------------------------------------------------------------------
\* C11
\* ------------------------------------------------------------------------
\* the csv log of a run of n epochs: the header, then the rows 1..n
FullLog(n) == [j \in 1..(n + 1) |-> IF j = 1 THEN CsvLine("header", 0) ELSE CsvLine("row", j - 1)]

\* some EarlyStopping callback of the call has set its stopped flag
SomeStopped == \E i \in 1..Len(trn.cbs) : trn.cbs[i].stopped

\* the positions of the loop; each has one action, which waits for nothing
LoopPositions ==
  {"call", "epoch", "forward", "loss", "loss_backward", "backward", "step",
   "metrics", "validation", "history", "log", "callbacks", "scheduler"}

\* the number of steps of one epoch of the call c
EpochSteps(c) == 5 * NumBatches(c.N, c.batch_size) + Len(c.callbacks) + 6

\* the number of steps from the position of the loop to the end of its epoch
StepsLeftInEpoch ==
  LET c == trn.cfg
      tail == Len(c.callbacks) + 5
      batches == NumBatches(c.N, c.batch_size) - (trn.start \div c.batch_size)
  IN CASE trn.pc = "epoch" -> EpochSteps(c)
       [] trn.pc = "forward" -> 5 * batches + tail
       [] trn.pc = "loss" -> 5 * batches + tail - 1
       [] trn.pc = "loss_backward" -> 5 * batches + tail - 2
       [] trn.pc = "backward" -> 5 * batches + tail - 3
       [] trn.pc = "step" -> 5 * batches + tail - 4
       [] trn.pc = "metrics" -> tail
       [] trn.pc = "validation" -> tail - 1
       [] trn.pc = "history" -> tail - 2
       [] trn.pc = "log" -> tail - 3
       [] trn.pc = "callbacks" -> Len(c.callbacks) - trn.cb + 2
       [] trn.pc = "scheduler" -> 1
       [] OTHER -> 0

\* a bound on the number of steps the call can still take: no step of the
\* loop leaves it unchanged or raises it, so that every call ends
StepsLeft ==
  CASE trn.pc \in {"done", "raised"} -> 0
    [] trn.pc = "call" -> trn.cfg.epochs * EpochSteps(trn.cfg) + 2
    [] trn.pc = "epoch" /\ trn.epoch > trn.cfg.epochs -> 1
    [] OTHER -> StepsLeftInEpoch + (trn.cfg.epochs - trn.epoch) * EpochSteps(trn.cfg) + 1

\* what holds when train() has returned
ReturnedAfterAllEpochs ==
  trn.pc = "done" =>
     /\ trn.epoch = trn.cfg.epochs + 1
     /\ \A name \in DOMAIN trn.history : Len(trn.history[name]) = trn.cfg.epochs
     /\ trn.cfg.log => trn.csv = FullLog(trn.cfg.epochs)

\* C11: train() on a non-empty training set ends after exactly `epochs`
\* epochs whatever the callbacks do: every step of the loop brings the end
\* nearer, nothing raises (unless a validation set is given and is empty),
\* and on return each of the four history lists has `epochs` entries and
\* the log is the header followed by the rows of the epochs 1, 2, ...,
\* epochs in order, a stopped flag of EarlyStopping notwithstanding.
C11_RunsAllEpochs ==
  /\ []ReturnedAfterAllEpochs
  /\ [](trn.pc = "raised" => (trn.cfg.N = 0 \/ trn.cfg.val = 0))
  /\ [](trn.pc \in LoopPositions \cup {"done", "raised"})
  /\ [][StepsLeft' < StepsLeft]_vars

\* a returned run of two epochs with a log whose EarlyStopping callback had
\* set its stopped flag in epoch 1 (no validation data: the monitored value
\* is nan and never improves)
C11_Witness ==
  /\ trn.pc = "done" /\ trn.cfg.epochs = 2 /\ trn.cfg.N > 0 /\ trn.cfg.log
  /\ trn.cfg.callbacks = <<"EarlyStopping">> /\ trn.cfg.patience = 1
  /\ SomeStopped /\ trn.cbs[1].wait = 2
  /\ Len(trn.history.val_loss) = 2 /\ trn.csv = FullLog(2)


\* ------------------------------------------------------------------------
\* src/train/callbacks.py : save_weights, src/cli/evaluate.py : load_weights
\* ------------------------------------------------------------------------
\* the default num_classes of the presets
NumClasses == 10

\* build_model(name, num_classes) of evaluate.py : the constructor calls
Preset(name) ==
  IF name = "lenet_mnist" THEN LenetMnist(NumClasses) ELSE VggTinyCifar10(NumClasses)

\* a batch of n images of the preset's data set
PresetBatch(name, n, v) ==
  IF name = "lenet_mnist" THEN T(<<n, 1, 28, 28>>, v) ELSE T(<<n, 3, 32, 32>>, v)

\* load_weights : "for k in params.keys(): if k in data: params[k][...] =
\* data[k] else raise KeyError", from the i-th key on; the assignment writes
\* into the model's own array and raises when the shapes do not agree
\* (the keys of params() come in the order of the layers, which is the
\* order of their arrays on the heap)
RECURSIVE LoadFrom(_, _, _, _)
LoadFrom(h, params, data, i) ==
  IF i > Cardinality(DOMAIN params) THEN [h |-> h, err |-> ""]
  ELSE LET k == KeyOf(params, CHOOSE a \in Ids(params) :
                                Cardinality({j \in Ids(params) : j <= a}) = i)
       IN IF k \notin DOMAIN data THEN [h |-> h, err |-> "KeyError"]
          ELSE IF data[k].shape # h[params[k]].shape THEN [h |-> h, err |-> "ValueError"]
          ELSE LoadFrom([h EXCEPT ![params[k]] = data[k]], params, data, i + 1)

LoadWeights(m, h, data) == LoadFrom(h, SeqParams(m), data, 1)

CkptOthers == <<col, lay, trn>>

\* a freshly built preset in the training process, which trains it for one
\* batch or not at all, and no file yet; ghost holds the file and the
\* process that loads it
CkptInit ==
  /\ \E name \in {"lenet_mnist", "vgg_tiny_cifar10"} :
       LET r == BuildLayers(Preset(name)) IN
         /\ heap = r.h
         /\ model = NewSequential(r.layers)
         /\ ghost = [pc |-> "fresh", name |-> name, file |-> NoFile,
                     loaded |-> NewSequential(r.layers), heap2 |-> r.h, err |-> "",
                     ref |-> NoneT]
  /\ opt \in {NewSGD(1, 0, FALSE, 0, FALSE, 4), NewSGD(1, 1, FALSE, 1, FALSE, 4)}
  /\ ret = NoRet /\ col = Idle /\ lay = Idle /\ trn = Idle

\* one training batch, first half: logits = model.forward(xb, training=True)
CkptForward ==
  /\ ghost.pc = "fresh"
  /\ \E n \in 1..MaxN, v \in {1, 2}, keep \in {0, 1} :
       LET r == SeqForward(model, heap, PresetBatch(ghost.name, n, v), "True", keep)
       IN /\ model' = r.m
          /\ heap' = r.h
          /\ ret' = [op |-> "forward", err |-> r.err, out |-> r.out]
  /\ ghost' = [ghost EXCEPT !.pc = "backward"]
  /\ UNCHANGED <<opt, col, lay, trn>>

\* second half: model.backward(grad_logits); optimizer.step(params, grads)
CkptBackwardStep ==
  /\ ghost.pc = "backward"
  /\ LET r == SeqBackward(model, heap, LossGrad(ret.out))
         s == Step(opt, r.h, SeqParams(r.m), SeqGrads(r.m))
     IN /\ model' = r.m
        /\ heap' = s.h
        /\ opt' = s.o
        /\ ret' = [op |-> "step", err |-> r.err, out |-> r.out]
  /\ ghost' = [ghost EXCEPT !.pc = "trained"]
  /\ UNCHANGED <<col, lay, trn>>

\* ModelCheckpoint : save_weights(state["model"], filepath)
CkptSave ==
  /\ ghost.pc \in {"fresh", "trained"}
  /\ ghost' = [ghost EXCEPT !.pc = "saved",
                            !.file = [exists |-> TRUE, data |-> SavedWeights(model, heap)]]
  /\ ret' = [op |-> "save", err |-> "", out |-> NoneT]
  /\ UNCHANGED <<model, heap, opt, col, lay, trn>>

\* evaluate.py : model = build_model(model_name, num_classes);
\* load_weights(model, args.weights), in a new process
CkptLoad ==
  /\ ghost.pc = "saved"
  /\ LET b == BuildLayers(Preset(ghost.name))
         r == LoadWeights(NewSequential(b.layers), b.h, ghost.file.data)
     IN ghost' = [ghost EXCEPT !.pc = "loaded", !.loaded = NewSequential(b.layers),
                               !.heap2 = r.h, !.err = r.err]
  /\ ret' = [op |-> "load", err |-> "", out |-> NoneT]
  /\ UNCHANGED <<model, heap, opt, col, lay, trn>>

\* model.eval(); logits = model.forward(X_test, training=False), on the
\* loaded model and, for reference, on the model that was saved
CkptEvaluate ==
  /\ ghost.pc = "loaded" /\ ghost.err = ""
  /\ \E n \in 1..MaxN, v \in {0 - 1, 1, 2} :
       LET x == PresetBatch(ghost.name, n, v)
           r1 == SeqForward(SeqEval(model), heap, x, "False", 1)
           r2 == SeqForward(SeqEval(ghost.loaded), ghost.heap2, x, "False", 1)
       IN /\ model' = r1.m
          /\ heap' = r1.h
          /\ ghost' = [ghost EXCEPT !.pc = "evaluated", !.loaded = r2.m, !.heap2 = r2.h,
                                    !.ref = r1.out]
          /\ ret' = [op |-> "evaluate", err |-> r2.err, out |-> r2.out]
  /\ UNCHANGED <<opt, col, lay, trn>>

CkptNext == CkptForward \/ CkptBackwardStep \/ CkptSave \/ CkptLoad \/ CkptEvaluate

SpecCkpt == CkptInit /\ [][CkptNext]_vars

\* ------------------------------------------------------------------------
\* C12
\* ------------------------------------------------------------------------
\* the loaded model has the keys of the saved one, with equal values
SameParams ==
  /\ DOMAIN SeqParams(ghost.loaded) = DOMAIN SeqParams(model)
  /\ \A k \in DOMAIN SeqParams(model) :
       ghost.heap2[SeqParams(ghost.loaded)[k]] = heap[SeqParams(model)[k]]

\* C12: after save_weights and load_weights into a freshly built model of
\* the same architecture the loaded model has the same qualified keys with
\* equal values, and its eval-mode forward output equals that of the saved
\* model for every input, for every preset.
C12_SaveLoadRestores ==
  /\ ghost.pc \in {"loaded", "evaluated"} => (ghost.err = "" /\ SameParams)
  /\ ghost.pc = "evaluated" => (ret.err = "" /\ ret.out = ghost.ref)

\* the part of C12 that holds: keys and values are restored for every
\* preset, and the outputs agree for the preset without BatchNorm2D
C12_ParamsRestored ==
  /\ ghost.pc \in {"loaded", "evaluated"} => (ghost.err = "" /\ SameParams)
  /\ (ghost.pc = "evaluated" /\ ghost.name = "lenet_mnist") =>
        (ret.err = "" /\ ret.out = ghost.ref)


DenseOut(x, W, b, N, I, O) ==
  [n \in 0..(N - 1), o \in 0..(O - 1) |->
     SumTo([i \in 0..(I - 1) |-> x[n, i] * W[o, i]], 0, I - 1) + b[o]]

\* a Dense.backward whose weight gradient is x_2d.T @ grad_out read as
\* (out, in): the transposed product
DenseGradsTransposed(g, x, W, N, I, O) ==
  [dW |-> [o \in 0..(O - 1), i \in 0..(I - 1) |->
             SumTo([n \in 0..(N - 1) |-> g[n, (o * I + i) % O] * x[n, (o * I + i) \div O]],
                   0, N - 1)],
   db |-> [o \in 0..(O - 1) |-> SumTo([n \in 0..(N - 1) |-> g[n, o]], 0, N - 1)],
   dx |-> [n \in 0..(N - 1), i \in 0..(I - 1) |->
             SumTo([o \in 0..(O - 1) |-> g[n, o] * W[o, i]], 0, O - 1)]]

\* Dense.backward : _dW = grad_out.T @ x_2d, _db = np.sum(grad_out, axis=0),
\* grad_x = grad_out @ W
DenseGrads(g, x, W, N, I, O) ==
  [dW |-> [o \in 0..(O - 1), i \in 0..(I - 1) |->
             SumTo([n \in 0..(N - 1) |-> g[n, o] * x[n, i]], 0, N - 1)],
   db |-> [o \in 0..(O - 1) |-> SumTo([n \in 0..(N - 1) |-> g[n, o]], 0, N - 1)],
   dx |-> [n \in 0..(N - 1), i \in 0..(I - 1) |->
             SumTo([o \in 0..(O - 1) |-> g[n, o] * W[o, i]], 0, O - 1)]]

\* W.reshape(out_channels, -1)
WRow(W, s) ==
  [o \in 0..(s.O - 1), q \in 0..(s.C * s.KH * s.KW - 1) |->
     W[o, q \div (s.KH * s.KW), (q % (s.KH * s.KW)) \div s.KW, q % s.KW]]

\* Conv2D.forward : out = x_cols @ W_row.T ; out += b ;
\* out.reshape(N, H_out, W_out, C_out).transpose(0, 3, 1, 2)
ConvOut(x, W, b, s) ==
  LET oh == OutDim(s.H, s.KH, s.stride, s.pad)
      ow == OutDim(s.W, s.KW, s.stride, s.pad)
      Q == s.C * s.KH * s.KW
      cols == im2col(x, s.N, s.C, s.H, s.W, s.KH, s.KW, s.stride, s.pad)
      wr == WRow(W, s)
  IN [n \in 0..(s.N - 1), o \in 0..(s.O - 1), a \in 0..(oh - 1), c \in 0..(ow - 1) |->
        SumTo([q \in 0..(Q - 1) |-> cols[(n * oh + a) * ow + c, q] * wr[o, q]], 0, Q - 1)
        + b[o]]

\* Conv2D.backward : grad_cols_out = grad_out.transpose(0, 2, 3, 1).reshape(
\* N * H_out * W_out, C_out); dW_row = grad_cols_out.T @ x_cols; _db =
\* np.sum(grad_cols_out, axis=0); dX = col2im(grad_cols_out @ W_row, ...)
ConvGrads(g, x, W, s) ==
  LET oh == OutDim(s.H, s.KH, s.stride, s.pad)
      ow == OutDim(s.W, s.KW, s.stride, s.pad)
      R == s.N * oh * ow
      Q == s.C * s.KH * s.KW
      cols == im2col(x, s.N, s.C, s.H, s.W, s.KH, s.KW, s.stride, s.pad)
      wr == WRow(W, s)
      gco == [r \in 0..(R - 1), o \in 0..(s.O - 1) |->
                g[r \div (oh * ow), o, (r % (oh * ow)) \div ow, r % ow]]
      dWrow == [o \in 0..(s.O - 1), q \in 0..(Q - 1) |->
                  SumTo([r \in 0..(R - 1) |-> gco[r, o] * cols[r, q]], 0, R - 1)]
      dXcols == [r \in 0..(R - 1), q \in 0..(Q - 1) |->
                   SumTo([o \in 0..(s.O - 1) |-> gco[r, o] * wr[o, q]], 0, s.O - 1)]
  IN [dW |-> [o \in 0..(s.O - 1), c \in 0..(s.C - 1), i \in 0..(s.KH - 1), j \in 0..(s.KW - 1) |->
                dWrow[o, (c * s.KH + i) * s.KW + j]],
      db |-> [o \in 0..(s.O - 1) |-> SumTo([r \in 0..(R - 1) |-> gco[r, o]], 0, R - 1)],
      dx |-> col2im(dXcols, s.N, s.C, s.H, s.W, s.KH, s.KW, s.stride, s.pad)]

\* layer.forward(x) with the parameters W and b, by class
ForwardE(kind, x, W, b, s) ==
  IF kind = "Dense" THEN DenseOut(x, W, b, s.N, s.C, s.O) ELSE ConvOut(x, W, b, s)

\* layer.backward(grad_out) by class: the input gradient and the buffers
BackwardE(kind, g, x, W, s) ==
  IF kind = "Dense" THEN DenseGrads(g, x, W, s.N, s.C, s.O) ELSE ConvGrads(g, x, W, s)

\* the scalar np.sum(grad_out * y)
Scalar(g, y) == SumF([k \in DOMAIN y |-> g[k] * y[k]], DOMAIN y)

\* tests/test_grad_check_numeric.py : finite_diff_grad with eps = 1, for the
\* scalar function of the x, W or b (which) of a layer
FiniteDiffGrad(which, kind, g, x, W, b, s) ==
  LET at(v) == CASE which = "x" -> Scalar(g, ForwardE(kind, v, W, b, s))
                 [] which = "W" -> Scalar(g, ForwardE(kind, x, v, b, s))
                 [] OTHER -> Scalar(g, ForwardE(kind, x, W, v, s))
      arg == CASE which = "x" -> x [] which = "W" -> W [] OTHER -> b
  IN [idx \in DOMAIN arg |->
        (at([arg EXCEPT ![idx] = @ + 1]) - at([arg EXCEPT ![idx] = @ - 1])) \div 2]

\* the layers and data of the gradient checks: a Dense layer (C is
\* in_features, O out_features) or a Conv2D layer of any kernel, stride and
\* padding with a valid output size
GradCases ==
  {[kind |-> "Dense", N |-> n, C |-> c, O |-> o, H |-> 1, W |-> 1, KH |-> 1, KW |-> 1,
    stride |-> 1, pad |-> 0] : n \in 1..MaxN, c \in 1..(MaxC + 1), o \in 1..MaxC}
  \cup {[kind |-> "Conv2D", N |-> t.N, C |-> t.C, O |-> o, H |-> t.H, W |-> t.W,
         KH |-> t.KH, KW |-> t.KW, stride |-> t.stride, pad |-> t.pad] :
          t \in {u \in ColShapes : u.N = 1 \/ u.C = 1}, o \in 1..MaxC}

\* the values of x, W, b and grad_out for a case, drawn from the bounded
\* family by seed
GradData(s, seed) ==
  LET oh == OutDim(s.H, s.KH, s.stride, s.pad)
      ow == OutDim(s.W, s.KW, s.stride, s.pad)
  IN IF s.kind = "Dense"
     THEN [x |-> [n \in 0..(s.N - 1), i \in 0..(s.C - 1) |-> GenVal(seed, n * s.C + i)],
           W |-> [o \in 0..(s.O - 1), i \in 0..(s.C - 1) |-> GenVal(seed + 1, o * s.C + i)],
           b |-> [o \in 0..(s.O - 1) |-> GenVal(seed + 3, o)],
           g |-> [n \in 0..(s.N - 1), o \in 0..(s.O - 1) |-> GenVal(seed + 2, n * s.O + o)]]
     ELSE [x |-> GenX(seed, s.N, s.C, s.H, s.W),
           W |-> [o \in 0..(s.O - 1), c \in 0..(s.C - 1), i \in 0..(s.KH - 1), j \in 0..(s.KW - 1) |->
                    GenVal(seed + 1, ((o * s.C + c) * s.KH + i) * s.KW + j)],
           b |-> [o \in 0..(s.O - 1) |-> GenVal(seed + 3, o)],
           g |-> [n \in 0..(s.N - 1), o \in 0..(s.O - 1), a \in 0..(oh - 1), c \in 0..(ow - 1) |->
                    GenVal(seed + 2, ((n * s.O + o) * oh + a) * ow + c)]]

GradOthers == <<col, heap, model, opt, trn, ghost>>

\* layer = Dense(...) or Conv2D(...), x and grad_out drawn
GradInit ==
  /\ \E s \in GradCases, seed \in 0..MaxSeed :
       LET d == GradData(s, seed)
       IN lay = [pc |-> "built", s |-> s, x |-> d.x, W |-> d.W, b |-> d.b, g |-> d.g,
                 y |-> <<>>, dx |-> <<>>, dW |-> <<>>, db |-> <<>>,
                 num |-> [x |-> <<>>, W |-> <<>>, b |-> <<>>]]
  /\ ret = NoRet
  /\ col = Idle /\ heap = <<>> /\ model = Idle /\ opt = Idle /\ trn = Idle /\ ghost = Idle

\* y = layer.forward(x)
GradForward ==
  /\ lay.pc = "built"
  /\ lay' = [lay EXCEPT !.pc = "forward",
                        !.y = ForwardE(lay.s.kind, lay.x, lay.W, lay.b, lay.s)]
  /\ ret' = [op |-> "forward", err |-> "", out |-> NoneT]
  /\ UNCHANGED GradOthers

\* dx = layer.backward(grad_out), which fills grads()
GradBackward ==
  /\ lay.pc = "forward"
  /\ LET r == BackwardE(lay.s.kind, lay.g, lay.x, lay.W, lay.s)
     IN lay' = [lay EXCEPT !.pc = "backward", !.dx = r.dx, !.dW = r.dW, !.db = r.db]
  /\ ret' = [op |-> "backward", err |-> "", out |-> NoneT]
  /\ UNCHANGED GradOthers

\* dx_num, dW_num, db_num = finite_diff_grad(...) for the input and each
\* parameter
GradNumeric ==
  /\ lay.pc = "backward"
  /\ lay' = [lay EXCEPT !.pc = "checked",
               !.num = [k \in {"x", "W", "b"} |->
                          FiniteDiffGrad(k, lay.s.kind, lay.g, lay.x, lay.W, lay.b, lay.s)]]
  /\ ret' = [op |-> "finite_diff_grad", err |-> "", out |-> NoneT]
  /\ UNCHANGED GradOthers

GradNext == GradForward \/ GradBackward \/ GradNumeric

SpecGrad == GradInit /\ [][GradNext]_vars

\* ------------------------------------------------------------------------
\* C14
\* ------------------------------------------------------------------------
\* C14: for Dense and Conv2D, for every input, weight, bias and upstream
\* gradient, the gradients backward produces (the input gradient,
\* grads()['W'], grads()['b']) equal the central finite-difference gradients
\* of sum(grad_out * forward(x)) with respect to the input and to each
\* parameter, for any stride and padding of Conv2D.
C14_GradientsMatchFiniteDifferences ==
  lay.pc = "checked" =>
     /\ lay.dx = lay.num.x
     /\ lay.dW = lay.num.W
     /\ lay.db = lay.num.b

\* a Conv2D with stride 2, padding 1 and a 2x2 kernel on a 3x3 input has
\* been checked, and its gradients are not all zero
C14_Witness ==
  /\ lay.pc = "checked" /\ lay.s.kind = "Conv2D"
  /\ lay.s.stride = 2 /\ lay.s.pad = 1 /\ lay.s.KH = 2 /\ lay.s.KW = 2
  /\ lay.s.H = 3 /\ lay.s.W = 3 /\ lay.s.O = 2
  /\ \E k \in DOMAIN lay.dx : lay.dx[k] # 0
  /\ \E k \in DOMAIN lay.dW : lay.dW[k] # 0
  /\ \E k \in DOMAIN lay.db : lay.db[k] # 0


\* ------------------------------------------------------------------------
\* src/core/regularizers.py : max_norm
\* ------------------------------------------------------------------------
\* Names are sequences of characters here, so that "tok in lname" is the
\* substring test of the code; arrays are sequences of numbers in units of
\* 1 / FP, and the heap holds them by index as before.

\* str.lower() on the characters the keys use
Lower(name) ==
  [i \in 1..Len(name) |->
     CASE name[i] = "B" -> "b" [] name[i] = "C" -> "c" [] name[i] = "D" -> "d"
       [] name[i] = "N" -> "n" [] name[i] = "W" -> "w" [] OTHER -> name[i]]

\* tok in lname
Contains(tok, lname) ==
  \E i \in 0..(Len(lname) - Len(tok)) : SubSeq(lname, i + 1, i + Len(tok)) = tok

\* any(tok in lname for tok in exclude) with lname = k.lower()
ExcludeName(k, exclude) == \E j \in 1..Len(exclude) : Contains(exclude[j], Lower(k))

\* the default of the exclude argument: ("bias", "b", "beta", "gamma")
DefaultExclude ==
  <<<<"b", "i", "a", "s">>, <<"b">>, <<"b", "e", "t", "a">>, <<"g", "a", "m", "m", "a">>>>

\* the keys of the mappings under study: "W" (as in the test),
\* "0.Dense.W", "0.Dense.b" and "1.BatchNorm2D.gamma"
RegKeys ==
  <<<<"W">>,
    <<"0", ".", "D", "e", "n", "s", "e", ".", "W">>,
    <<"0", ".", "D", "e", "n", "s", "e", ".", "b">>,
    <<"1", ".", "B", "a", "t", "c", "h", "N", "o", "r", "m", "2", "D", ".", "g", "a", "m", "m", "a">>>>

\* float(np.linalg.norm(v)) : exact on the arrays under study
Norm(arr) == Isqrt(SumTo([i \in 1..Len(arr) |-> arr[i] * arr[i]], 1, Len(arr)))

\* a max_norm that rebinds the entry: params[k] = params[k] * scale
MaxNormRebindFrom(h, params, mv, exclude, i) ==
  [h |-> h \o [j \in 1..Len(RegKeys) |->
                 LET v == h[params[RegKeys[j]]]
                 IN IF ~ExcludeName(RegKeys[j], exclude) /\ Norm(v) > mv /\ Norm(v) > 0
                    THEN [e \in 1..Len(v) |-> (v[e] * mv) \div Norm(v)] ELSE v],
   params |-> [k \in DOMAIN params |->
                 Len(h) + (CHOOSE j \in 1..Len(RegKeys) : RegKeys[j] = k)]]

\* max_norm : "for k, v in params.items()" from the i-th key on; "if
\* excluded: continue"; "if norm > mv and norm > 0.0: params[k][...] *=
\* scale" with scale = mv / norm, written into the array the mapping holds
RECURSIVE MaxNormFrom(_, _, _, _, _)
MaxNormFrom(h, params, mv, exclude, i) ==
  IF i > Len(RegKeys) THEN [h |-> h, params |-> params]
  ELSE LET k == RegKeys[i]
           v == h[params[k]]
           norm == Norm(v)
       IN IF ExcludeName(k, exclude) THEN MaxNormFrom(h, params, mv, exclude, i + 1)
          ELSE IF norm > mv /\ norm > 0
          THEN MaxNormFrom([h EXCEPT ![params[k]] = [e \in 1..Len(v) |-> (v[e] * mv) \div norm]],
                           params, mv, exclude, i + 1)
          ELSE MaxNormFrom(h, params, mv, exclude, i + 1)

\* the arrays a parameter can be: multiples of (3, 4) and of (0, 1)
RegArrays ==
  {<<3 * c * FP, 4 * c * FP>> : c \in 0..2} \cup {<<0, c * FP>> : c \in 1..3}

RegOthers == <<col, lay, opt, trn>>

\* a mapping of four parameters, each holding its own array, or with "W"
\* holding the array of "0.Dense.W"; ghost keeps what the caller holds
RegInit ==
  /\ \E a \in [1..Len(RegKeys) -> RegArrays], alias \in BOOLEAN :
       /\ heap = a
       /\ model = [params |-> [k \in {RegKeys[j] : j \in 1..Len(RegKeys)} |->
                                 LET j == CHOOSE j \in 1..Len(RegKeys) : RegKeys[j] = k
                                 IN IF alias /\ j = 1 THEN 2 ELSE j]]
  /\ ghost = [pc |-> "built", held |-> model.params, before |-> heap, mv |-> 0, exclude |-> <<>>]
  /\ ret = NoRet
  /\ col = Idle /\ lay = Idle /\ opt = Idle /\ trn = Idle

\* max_norm(params, max_value, exclude)
MaxNormCall ==
  /\ ghost.pc = "built"
  /\ \E m \in 1..MaxNormValue, exclude \in {DefaultExclude, <<>>} :
       LET r == MaxNormFrom(heap, model.params, m * FP, exclude, 1)
       IN /\ heap' = r.h
          /\ model' = [model EXCEPT !.params = r.params]
          /\ ghost' = [ghost EXCEPT !.pc = "called", !.mv = m * FP, !.exclude = exclude]
  /\ ret' = [op |-> "max_norm", err |-> "", out |-> NoneT]
  /\ UNCHANGED RegOthers

\* l2_penalty(params, exclude) : reads the parameters only
L2PenaltyCall ==
  /\ ghost.pc = "called"
  /\ \E exclude \in {DefaultExclude, <<>>} :
       ret' = [op |-> "l2_penalty", err |-> "",
               out |-> T(<<>>, SumTo([j \in 1..Len(RegKeys) |->
                                        IF ExcludeName(RegKeys[j], exclude) THEN 0
                                        ELSE LET v == heap[model.params[RegKeys[j]]]
                                             IN SumTo([e \in 1..Len(v) |-> (v[e] * v[e]) \div FP],
                                                      1, Len(v))],
                                     1, Len(RegKeys)))]
  /\ ghost' = [ghost EXCEPT !.pc = "done"]
  /\ UNCHANGED <<heap, model>>
  /\ UNCHANGED RegOthers

RegNext == MaxNormCall \/ L2PenaltyCall

SpecReg == RegInit /\ [][RegNext]_vars

\* ------------------------------------------------------------------------
\* C15
\* ------------------------------------------------------------------------
\* C15: after max_norm the mapping still holds the same array objects and no
\* array was created; every parameter not excluded by name whose L2 norm
\* exceeded max_value has norm max_value and its old direction, visible to
\* every holder of the array; the parameters with norm <= max_value and the
\* excluded parameters are unchanged.
C15_MaxNormInPlace ==
  ghost.pc \in {"called", "done"} =>
     /\ model.params = ghost.held
     /\ Len(heap) = Len(ghost.before)
     /\ \A k \in DOMAIN ghost.held :
          LET id == ghost.held[k]
              old == ghost.before[id]
          IN IF ~ExcludeName(k, ghost.exclude) /\ Norm(old) > ghost.mv
             THEN /\ Norm(heap[id]) = ghost.mv
                  /\ \A e \in 1..Len(old) : heap[id][e] * Norm(old) = old[e] * ghost.mv
             ELSE \/ heap[id] = old
                  \/ \E k2 \in DOMAIN ghost.held :
                        /\ ghost.held[k2] = id /\ ~ExcludeName(k2, ghost.exclude)
                        /\ Norm(old) > ghost.mv

\* the test's case among others: "W" = (3, 4) of norm 5 scaled to
\* max_value 2 in the array the caller holds, next to an excluded bias of
\* norm 10 and a weight of norm 1 that both stay as they were
C15_Witness ==
  /\ ghost.pc = "called" /\ ghost.mv = 2 * FP /\ ghost.exclude = DefaultExclude
  /\ ghost.before[ghost.held[<<"W">>]] = <<3 * FP, 4 * FP>>
  /\ heap[ghost.held[<<"W">>]] = <<120, 160>>
  /\ ghost.before[3] = <<6 * FP, 8 * FP>> /\ heap[3] = <<6 * FP, 8 * FP>>
  /\ ghost.before[2] = <<0, FP>> /\ heap[2] = <<0, FP>>


\* ------------------------------------------------------------------------
\* src/layers/pooling.py : MaxPool2D element by element
\* ------------------------------------------------------------------------
\* x[:, :, h_start:h_end, w_start:w_end] of output cell (i, j) holds (h, w)
InWindow(s, i, j, h, w) ==
  /\ h >= i * s.stride /\ h < i * s.stride + s.KH /\ h < s.H
  /\ w >= j * s.stride /\ w < j * s.stride + s.KW /\ w < s.W

\* max_vals = np.max(window, axis=(2, 3)) for sample n, channel c
WindowMax(x, s, n, c, i, j) ==
  LET vals == {x[n, c, h, w] : h \in (i * s.stride)..(i * s.stride + s.KH - 1),
                              w \in (j * s.stride)..(j * s.stride + s.KW - 1)}
  IN CHOOSE m \in vals : \A v \in vals : v <= m

\* MaxPool2D.forward : out[:, :, i, j] = max_vals
MaxPoolOut(x, s) ==
  [n \in 0..(s.N - 1), c \in 0..(s.C - 1),
   i \in 0..(PoolOut(s.H, s.KH, s.stride) - 1), j \in 0..(PoolOut(s.W, s.KW, s.stride) - 1) |->
     WindowMax(x, s, n, c, i, j)]

\* MaxPool2D.forward : one mask of the shape of x, into which every window
\* ORs its (window == max_vals)
MaxPoolMask(x, s) ==
  [n \in 0..(s.N - 1), c \in 0..(s.C - 1), h \in 0..(s.H - 1), w \in 0..(s.W - 1) |->
     \E i \in 0..(PoolOut(s.H, s.KH, s.stride) - 1), j \in 0..(PoolOut(s.W, s.KW, s.stride) - 1) :
        InWindow(s, i, j, h, w) /\ x[n, c, h, w] = WindowMax(x, s, n, c, i, j)]

\* MaxPool2D.backward : every output cell adds grad_slice * mask_slice to its
\* window of grad_x, mask_slice being the cached mask cut to the window
MaxPoolGrad(mask, g, s) ==
  LET oh == PoolOut(s.H, s.KH, s.stride)
      ow == PoolOut(s.W, s.KW, s.stride)
  IN [n \in 0..(s.N - 1), c \in 0..(s.C - 1), h \in 0..(s.H - 1), w \in 0..(s.W - 1) |->
        SumTo([k \in 0..(oh * ow - 1) |->
                 IF InWindow(s, k \div ow, k % ow, h, w) /\ mask[n, c, h, w]
                 THEN g[n, c, k \div ow, k % ow] ELSE 0], 0, oh * ow - 1)]

\* the gradient of forward on an input without ties: grad_out summed over
\* the output cells whose window attains its maximum at (h, w)
MaxPoolTrueGrad(x, g, s) ==
  LET oh == PoolOut(s.H, s.KH, s.stride)
      ow == PoolOut(s.W, s.KW, s.stride)
  IN [n \in 0..(s.N - 1), c \in 0..(s.C - 1), h \in 0..(s.H - 1), w \in 0..(s.W - 1) |->
        SumTo([k \in 0..(oh * ow - 1) |->
                 IF InWindow(s, k \div ow, k % ow, h, w)
                    /\ x[n, c, h, w] = WindowMax(x, s, n, c, k \div ow, k % ow)
                 THEN g[n, c, k \div ow, k % ow] ELSE 0], 0, oh * ow - 1)]

\* the pooling cases: every shape, kernel and stride with a positive output
\* size (no padding)
PoolCases == {s \in ColShapes : s.pad = 0}

\* an input without ties: the flat position of an element, in one of four
\* orders
PoolX(order, s) ==
  [n \in 0..(s.N - 1), c \in 0..(s.C - 1), h \in 0..(s.H - 1), w \in 0..(s.W - 1) |->
     LET k == ((n * s.C + c) * s.H + h) * s.W + w
     IN CASE order = 0 -> k
          [] order = 1 -> 0 - k
          [] order = 2 -> IF k % 2 = 0 THEN k ELSE 0 - k
          [] OTHER -> IF k % 2 = 0 THEN 0 - k ELSE k]

PoolOthers == <<col, heap, model, opt, trn>>

PoolInit ==
  /\ \E s \in PoolCases, order \in 0..3 :
       lay = [pc |-> "built", s |-> s, x |-> PoolX(order, s), y |-> <<>>, mask |-> <<>>,
              g |-> <<>>, dx |-> <<>>]
  /\ ret = NoRet /\ ghost = Idle
  /\ col = Idle /\ heap = <<>> /\ model = Idle /\ opt = Idle /\ trn = Idle

\* y = pool.forward(x)
PoolForward ==
  /\ lay.pc = "built"
  /\ lay' = [lay EXCEPT !.pc = "forward", !.y = MaxPoolOut(lay.x, lay.s),
               !.mask = MaxPoolMask(lay.x, lay.s)]
  /\ ret' = [op |-> "forward", err |-> "", out |-> NoneT]
  /\ UNCHANGED ghost
  /\ UNCHANGED PoolOthers

\* dx = pool.backward(grad_out), grad_out of the shape of y
PoolBackward ==
  /\ lay.pc = "forward"
  /\ \E seed \in 0..MaxSeed :
       LET s == lay.s
           g == [n \in 0..(s.N - 1), c \in 0..(s.C - 1),
                 i \in 0..(PoolOut(s.H, s.KH, s.stride) - 1),
                 j \in 0..(PoolOut(s.W, s.KW, s.stride) - 1) |->
                   1 + seed * (i + j + n + c)]
       IN lay' = [lay EXCEPT !.pc = "backward", !.g = g, !.dx = MaxPoolGrad(lay.mask, g, s)]
  /\ ret' = [op |-> "backward", err |-> "", out |-> NoneT]
  /\ UNCHANGED ghost
  /\ UNCHANGED PoolOthers

PoolNext == PoolForward \/ PoolBackward

SpecPool == PoolInit /\ [][PoolNext]_vars

\* ------------------------------------------------------------------------
\* C20
\* ------------------------------------------------------------------------
\* C20: for every kernel size and stride, overlapping windows included, and
\* an input with no ties inside any window, the grad_x that
\* MaxPool2D.backward returns is, at every position, the sum of grad_out
\* over exactly the output cells whose window attains its maximum there (0
\* where no window does).
C20_MaxPoolBackwardIsGradient ==
  lay.pc = "backward" => lay.dx = MaxPoolTrueGrad(lay.x, lay.g, lay.s)

\* the same for windows that do not overlap (stride >= kernel), which holds
C20_NonOverlapping ==
  (lay.pc = "backward" /\ lay.s.stride >= lay.s.KH /\ lay.s.stride >= lay.s.KW) =>
     lay.dx = MaxPoolTrueGrad(lay.x, lay.g, lay.s)


\* ------------------------------------------------------------------------
\* C24
\* ------------------------------------------------------------------------
\* the step is the validation phase of an epoch with a validation set
IsValidation == trn.pc = "validation" /\ trn'.pc = "history" /\ trn.cfg.val > 0

\* C24: with a validation set, every validation forward runs with the
\* container and all layers in eval mode, and the validation phase leaves
\* parameters, gradient buffers, running statistics and optimizer as they
\* were and the model in training mode; every training mini-batch runs in
\* training mode, and the model is in training mode when the history is
\* appended, when callbacks and scheduler run and when train() returns.
C24_ModeDiscipline ==
  /\ [][IsValidation =>
          /\ Len(trn'.val_modes) = NumBatches(trn.cfg.val, trn.cfg.batch_size)
          /\ \A j \in 1..Len(trn'.val_modes) : trn'.val_modes[j] = "eval"
          /\ SeqParams(model') = SeqParams(model) /\ SeqGrads(model') = SeqGrads(model)
          /\ heap' = heap /\ opt' = opt
          /\ RunningStats(model') = RunningStats(model)
          /\ AllFlags(model', TRUE)]_vars
  /\ [](\A j \in 1..Len(trn.trace) :
          trn.trace[j].ev = "forward" => trn.trace[j].tag = "training")
  /\ [](trn.pc \in {"forward", "history", "log", "callbacks", "scheduler", "done"} =>
          AllFlags(model, TRUE))

\* train() has returned after two epochs with one validation batch each,
\* callbacks registered, and running statistics moved by the training
\* batches only
C24_Witness ==
  /\ trn.pc = "done" /\ trn.cfg.epochs = 2 /\ trn.cfg.val = 1 /\ trn.cfg.N = 2
  /\ Len(trn.cfg.callbacks) = 2
  /\ trn.val_modes = <<"eval">> /\ AllFlags(model, TRUE)
  /\ RunningStats(model)[2] # <<0, FP>>


\* ------------------------------------------------------------------------
\* Schedulers and ReduceLROnPlateau on one optimizer: src/train/scheduler.py
\* ------------------------------------------------------------------------
MaxSchedEpochs == 6

MaxSchedCalls == 4

MaxWarmup == 2

\* the learning rates an optimizer is built with: multiples of the floor
SchedLrs == {2 * LrFloor, 4 * LrFloor}

\* the schedulers under study, built on optimizer o
SchedChoices(o) ==
  {NewStepLR(o, ss, 2) : ss \in 1..2}
  \cup {NewCosineAnnealingLR(o, tm, mn) : tm \in CosineHorizons, mn \in {0, LrFloor}}
  \cup {NewWarmupCosineLR(o, w, tm, mx, o.lr, mn) :
          w \in 0..MaxWarmup, tm \in CosineHorizons, mx \in {o.lr, 2 * o.lr},
          mn \in {0, LrFloor}}

SchedInit ==
  /\ col = Idle /\ lay = Idle /\ model = Idle /\ heap = <<>>
  /\ \E lr \in SchedLrs : opt = NewSGD(lr, 0, FALSE, 0, FALSE, 0)
  /\ \E s \in SchedChoices(opt) :
       trn = [pc |-> "sched", sched |-> s, cb |-> NewCallback("ReduceLROnPlateau", 1)]
  /\ ret = NoCall
  /\ ghost = [calls |-> 0, last |-> "none", epoch |-> 0, lr0 |-> opt.lr]

\* scheduler.step(epoch), for any epoch
SchedStep ==
  /\ trn.pc = "sched" /\ ghost.calls < MaxSchedCalls
  /\ \E epoch \in 1..MaxSchedEpochs :
       /\ opt' = SchedulerStepLr(trn.sched, epoch, opt)
       /\ ghost' = [ghost EXCEPT !.calls = @ + 1, !.last = "step", !.epoch = epoch]
  /\ UNCHANGED <<col, lay, model, heap, trn, ret>>

\* the ReduceLROnPlateau callback, called with any monitored value
SchedReduce ==
  /\ trn.pc = "sched" /\ ghost.calls < MaxSchedCalls
  /\ \E value \in MetricLevels \cup {NaN} :
       /\ opt' = ReducedLr(trn.cb, value, opt)
       /\ trn' = [trn EXCEPT !.cb = ReduceLROnPlateauCall(trn.cb, value)]
  /\ ghost' = [ghost EXCEPT !.calls = @ + 1, !.last = "reduce"]
  /\ UNCHANGED <<col, lay, model, heap, ret>>

SchedNext == SchedStep \/ SchedReduce

SpecSched == SchedInit /\ [][SchedNext]_vars

\* C25: after any sequence of scheduler steps and ReduceLROnPlateau
\* reductions the learning rate of the optimizer is at least the floor
C25_LrNeverBelowFloor == trn.pc = "sched" => opt.lr >= LrFloor


\* the last call was WarmupCosineLR.step(epoch) with warmup_epochs >= 1
WarmupStepped ==
  /\ trn.pc = "sched" /\ ghost.last = "step"
  /\ trn.sched.kind = "warmup_cosine" /\ trn.sched.warmup_epochs >= 1

\* C26: WarmupCosineLR with warmup_epochs >= 1: step(1) sets the rate to
\* base_lr, step(warmup_epochs) sets it to max_lr, and step(epoch) sets it to
\* min_lr for every epoch >= warmup_epochs + T_max
C26_WarmupCosineShape ==
  WarmupStepped =>
    /\ ghost.epoch = 1 => opt.lr = trn.sched.base_lr
    /\ ghost.epoch = trn.sched.warmup_epochs => opt.lr = trn.sched.max_lr
    /\ ghost.epoch >= trn.sched.warmup_epochs + trn.sched.T_max => opt.lr = trn.sched.min_lr


\* ------------------------------------------------------------------------
\* C27
\* ------------------------------------------------------------------------
\* the number of windows of the output grid that contain the padded
\* coordinate p of a dimension of size D
Covering(p, D, K, stride, pad) ==
  Cardinality({t \in (0..(K - 1)) \X (0..(OutDim(D, K, stride, pad) - 1)) :
                 t[1] + stride * t[2] = p})

\* the number of windows that contain pixel (h, w) of the input
Windows(s, h, w) ==
  Covering(h + s.pad, s.H, s.KH, s.stride, s.pad)
    * Covering(w + s.pad, s.W, s.KW, s.stride, s.pad)

ColPixels(s) == (0..(s.N - 1)) \X (0..(s.C - 1)) \X (0..(s.H - 1)) \X (0..(s.W - 1))

Clamped(lr) == IF lr <= 0 THEN LrFloor ELSE lr

\* the rate of the optimizer steps of an epoch, when a scheduler is passed:
\* the rate at construction, then what the scheduler set at the end of the
\* epoch before
EpochLr(s, lr0, epoch) == IF epoch = 1 THEN lr0 ELSE Clamped(SchedulerLr(s, epoch - 1))

\* C28: with a scheduler passed to train(), the rate after scheduler.step(epoch)
\* is a function of the epoch and of what the scheduler fixed at construction,
\* whatever the callbacks of the epoch did to it, and every optimizer step
\* runs with the rate of the schedule, never with a rate a callback set
C28_SchedulerOverwritesCallbackLr ==
  /\ [][(trn.pc = "scheduler" /\ trn.cfg.scheduler) =>
          opt'.lr = Clamped(SchedulerLr(trn.sched, trn.epoch))]_vars
  /\ []((trn.pc = "step" /\ trn.cfg.scheduler) =>
          opt.lr = EpochLr(trn.sched, trn.lr0, trn.epoch))

\* an optimizer step of epoch 2 is about to run, ReduceLROnPlateau lowered
\* the rate in epoch 1 and the scheduler has replaced the lowered rate
C28_Witness ==
  /\ trn.pc = "step" /\ trn.epoch = 2 /\ trn.cfg.scheduler
  /\ trn.cb_lr < trn.lr0 /\ opt.lr # trn.cb_lr
  /\ opt.lr = EpochLr(trn.sched, trn.lr0, 2)


\* ------------------------------------------------------------------------
\* An EarlyStopping callback called epoch after epoch: src/train/callbacks.py
\* ------------------------------------------------------------------------
MaxStopCalls == 5

MaxStopPatience == 3

\* the values of the monitored metric
StopValues == {1, 2, 3, NaN}

\* EarlyStopping(monitor, patience, mode)
NewEarlyStopping(patience, mode) ==
  [NewCallback("EarlyStopping", patience) EXCEPT
     !.mode = mode, !.best = IF mode = "min" THEN Inf ELSE 0 - Inf]

StopInit ==
  /\ col = Idle /\ lay = Idle /\ model = Idle /\ opt = Idle /\ heap = <<>> /\ ret = NoCall
  /\ \E p \in 1..MaxStopPatience, m \in {"min", "max"} :
       trn = [pc |-> "stop", cb |-> NewEarlyStopping(p, m)]
  /\ ghost = [vals |-> <<>>, stops |-> <<>>]

\* cb(state) at the end of an epoch, then cb.stopped()
StopCall ==
  /\ trn.pc = "stop" /\ Len(ghost.vals) < MaxStopCalls
  /\ \E value \in StopValues :
       LET cb == EarlyStoppingCall(trn.cb, value)
       IN /\ trn' = [trn EXCEPT !.cb = cb]
          /\ ghost' = [vals |-> Append(ghost.vals, value),
                       stops |-> Append(ghost.stops, cb.stopped)]
  /\ UNCHANGED <<col, lay, model, opt, heap, ret>>

StopNext == StopCall

SpecStop == StopInit /\ [][StopNext]_vars

\* value b is strictly better than value a
Better(mode, b, a) == IF mode = "min" THEN b < a ELSE b > a

\* invocation j did not strictly improve on the best value so far
FailedAt(mode, vals, j) ==
  \/ vals[j] = NaN
  \/ \E i \in 1..(j - 1) : vals[i] # NaN /\ ~Better(mode, vals[j], vals[i])

\* invocation n ends a run of patience invocations without improvement
RunEndsAt(mode, patience, vals, n) ==
  n >= patience /\ \A i \in (n - patience + 1)..n : FailedAt(mode, vals, i)

\* C29: after each invocation stopped() is True exactly when some invocation
\* so far ended a run of patience consecutive invocations that did not
\* strictly improve on the best value so far, a NaN counting as no
\* improvement; so it is False before the first such invocation and stays
\* True after it, whatever the later values
C29_StoppedAfterPatience ==
  trn.pc = "stop" =>
    \A n \in 1..Len(ghost.vals) :
      ghost.stops[n] = (\E j \in 1..n :
                          RunEndsAt(trn.cb.mode, trn.cb.patience, ghost.vals, j))

\* patience 2: an improvement, a NaN and a worse value stop the callback at
\* the third invocation, and a later strictly better value leaves it stopped
C29_Witness ==
  /\ trn.pc = "stop" /\ trn.cb.patience = 2 /\ trn.cb.mode = "min"
  /\ ghost.vals = <<2, NaN, 3, 1>>
  /\ ghost.stops = <<FALSE, FALSE, TRUE, TRUE>>
  /\ trn.cb.wait = 0 /\ trn.cb.best = 1


\* ------------------------------------------------------------------------
\* The callbacks the training CLI builds: src/cli/train.py
\* ------------------------------------------------------------------------
MaxCliEpochs == 4

\* the monitor names of a configuration: "val_acc", "val_loss", "train_loss"
CliMonitors ==
  {<<"v", "a", "l", "_", "a", "c", "c">>,
   <<"v", "a", "l", "_", "l", "o", "s", "s">>,
   <<"t", "r", "a", "i", "n", "_", "l", "o", "s", "s">>}

\* "min" if "loss" in monitor else "max" : the rule of early_stopping and
\* reduce_lr_on_plateau
CliDirection(monitor) ==
  IF Contains(<<"l", "o", "s", "s">>, monitor) THEN "min" ELSE "max"

\* ModelCheckpoint(filepath=..., monitor=p.get("monitor", "val_acc"), mode="max")
CliCheckpoint(monitor) ==
  [NewCallback("ModelCheckpoint", 1) EXCEPT !.monitor = monitor]

\* EarlyStopping(monitor=..., patience=..., mode="min" if "loss" in monitor else "max")
CliEarlyStopping(monitor, patience) ==
  [NewEarlyStopping(patience, CliDirection(monitor)) EXCEPT !.monitor = monitor]

\* the parameters at the end of an epoch are named by the epoch; file = 0:
\* no checkpoint was written
CliInit ==
  /\ col = Idle /\ lay = Idle /\ model = Idle /\ opt = Idle /\ heap = <<>> /\ ret = NoCall
  /\ \E mon \in CliMonitors :
       trn = [pc |-> "cli", cb |-> CliCheckpoint(mon), es |-> CliEarlyStopping(mon, 1),
              file |-> 0]
  /\ ghost = [vals |-> <<>>, saved |-> <<>>]

\* the callbacks of one epoch of train(), with any monitored value
CliEpoch ==
  /\ trn.pc = "cli" /\ Len(ghost.vals) < MaxCliEpochs
  /\ \E value \in StopValues :
       LET saves == Improved(trn.cb.mode, value, trn.cb.best)
       IN /\ trn' = [trn EXCEPT !.cb = ModelCheckpointCall(trn.cb, value),
                                !.es = EarlyStoppingCall(trn.es, value),
                                !.file = IF saves THEN Len(ghost.vals) + 1 ELSE @]
          /\ ghost' = [vals |-> Append(ghost.vals, value),
                       saved |-> Append(ghost.saved, saves)]
  /\ UNCHANGED <<col, lay, model, opt, heap, ret>>

CliNext == CliEpoch

SpecCli == CliInit /\ [][CliNext]_vars

\* the value of epoch e is strictly better, in direction mode, than the value
\* of every earlier epoch that has one
BestSoFar(mode, vals, e) ==
  /\ vals[e] # NaN
  /\ \A i \in 1..(e - 1) : vals[i] # NaN => Better(mode, vals[e], vals[i])

\* C30: the checkpoint callback the CLI builds saves at epoch e exactly when
\* the monitored value at e is strictly better than at every earlier epoch,
\* lower being better when the monitor name contains "loss" and higher
\* otherwise; so the file holds the parameters of the best epoch
C30_CheckpointFollowsMonitorDirection ==
  trn.pc = "cli" =>
    /\ \A e \in 1..Len(ghost.vals) :
         ghost.saved[e] = BestSoFar(CliDirection(trn.cb.monitor), ghost.vals, e)
    /\ trn.file # 0 =>
         /\ BestSoFar(CliDirection(trn.cb.monitor), ghost.vals, trn.file)
         /\ \A e \in (trn.file + 1)..Len(ghost.vals) :
              ~BestSoFar(CliDirection(trn.cb.monitor), ghost.vals, e)

====
